---- MODULE Spec2Model ----
(***************************************************************************)
(* A model of cyclocalc (Static-Code-Profiler): the function extractor,    *)
(* the metrics engine, the file collection and per-file run of the CLI,    *)
(* and the aggregator / classifier of the report generator.                *)
(*                                                                         *)
(* A syntax tree is a sequence of node records numbered in pre-order;      *)
(* node 1 is the root, every other node names its parent, and the children *)
(* of a node are the nodes naming it, in ascending order (source order).   *)
(***************************************************************************)
EXTENDS Integers, Sequences, FiniteSets, TLC

VARIABLES
    tree,          \* the parsed tree handed to list_functions / the metrics
    has_pos,       \* whether the tree's nodes expose lineno and end_lineno
    lf_pc,         \* list_functions: "start", "walk" or "done"
    frames,        \* list_functions: the visitor's call stack
    scope_stack,   \* list_functions: scope_stack
    functions,     \* list_functions: functions, as (full_name, node) pairs
    func_node,     \* collect_func_metrics: the node it was called on (0: none)
    m,             \* collect_func_metrics: the FuncMetrics returned
    source,        \* collect_file_metrics: the file's text
    fm,            \* collect_file_metrics: the FileMetrics returned
    fs,            \* the file system: path -> directory or file with content
    paths,         \* analyze: the paths argument
    ignore,        \* analyze: the --ignore substrings
    threshold,     \* analyze: the --threshold option
    pc,            \* analyze: the step the invocation stands at
    all_files,     \* collect_python_files: all_files
    func_results,  \* generate_results: func_results
    file_summaries, \* generate_results: file_summaries
    func_stats,    \* generate_results: func_stats
    file_stats,    \* generate_results: file_stats
    stderr,        \* the messages written to the error stream
    stdout,        \* the lines echoed by output_results
    exit_code,     \* the exit code of the invocation, None while it runs
    listing,       \* the file system: the order in which a walk yields entries
    json_path,     \* analyze: the --json option, None when it is not given
    exports,       \* the JSON exports written by the invocations so far
    report_pc,     \* the reporting step reached: charts, then the HTML report
    cc_counts,     \* plot_cc_distribution: counts, None before it ran
    len_counts,    \* plot_len_distribution: counts, None before it ran
    heat_rows,     \* plot_file_heatmap: rows, None before it ran
    summary,       \* generate_html_report: summary
    smells,        \* generate_html_report: smells
    file_ranking,  \* generate_html_report: file_ranking
    top_rows       \* generate_html_report: the rows of the top functions table

treeVars == <<tree, has_pos>>
extractVars == <<lf_pc, frames, scope_stack, functions>>
metricVars == <<func_node, m>>
fileVars == <<source, fm>>
cliVars == <<fs, paths, ignore, threshold, pc, all_files, func_results,
             file_summaries, stderr, stdout, exit_code, listing, json_path,
             exports>>
statVars == <<func_stats, file_stats>>
reportVars == <<report_pc, cc_counts, len_counts, heat_rows, summary, smells, file_ranking,
                top_rows>>
vars == <<tree, has_pos, lf_pc, frames, scope_stack, functions, func_node, m,
          source, fm, fs, paths, ignore, threshold, pc, all_files,
          func_results, file_summaries, func_stats, file_stats, stderr,
          stdout, exit_code, listing, json_path, exports, report_pc,
          cc_counts, len_counts, heat_rows, summary, smells, file_ranking,
          top_rows>>

\* what the function extractor, the function metrics and the file metrics
\* leave alone
outsideExtract == <<treeVars, metricVars, fileVars, cliVars, statVars, reportVars>>
outsideMetrics == <<treeVars, extractVars, fileVars, cliVars, statVars, reportVars>>
outsideFile == <<treeVars, extractVars, metricVars, cliVars, statVars, reportVars>>
outsideCli == <<treeVars, extractVars, metricVars, fileVars, reportVars>>
outsideReport == <<treeVars, extractVars, metricVars, fileVars, cliVars, statVars>>

(***************************************************************************)
(* Bounds of the model.                                                    *)
(***************************************************************************)
\* nodes of a tree handed to list_functions, the Module root included
MaxNodes == 4
\* nodes of a function's subtree below the function node
MaxBody == 3
\* operands of a boolean and/or node beyond the two the grammar requires
MaxExtraOperands == 1
\* size of a file handed to collect_file_metrics: the nodes of its tree below
\* the Module plus the runs of its text
MaxFileInput == 3

(***************************************************************************)
(* Syntax trees (the ast module's nodes, as far as the program reads them) *)
(***************************************************************************)
FunctionKinds == {"FunctionDef", "AsyncFunctionDef"}
DefKinds == FunctionKinds \cup {"ClassDef"}

\* Optional[int]: None, or a value
None == << >>
Some(v) == <<v>>

\* No run of list_functions, of collect_func_metrics, of
\* collect_file_metrics, of the command line has begun.
IdleExtract ==
    /\ lf_pc = "start"
    /\ frames = << >>
    /\ scope_stack = << >>
    /\ functions = << >>

IdleMetrics == func_node = 0 /\ m = None

IdleFile == fm = None

IdleCli ==
    /\ fs = << >>
    /\ paths = << >>
    /\ ignore = << >>
    /\ threshold = 1
    /\ pc = [at |-> "idle", i |-> 0]
    /\ all_files = << >>
    /\ func_results = << >>
    /\ file_summaries = << >>
    /\ stderr = << >>
    /\ stdout = << >>
    /\ exit_code = None
    /\ listing = << >>
    /\ json_path = None
    /\ exports = << >>

IdleStats == func_stats = << >> /\ file_stats = << >>

IdleReport ==
    /\ report_pc = "idle"
    /\ cc_counts = None
    /\ len_counts = None
    /\ heat_rows = None
    /\ summary = None
    /\ smells = None
    /\ file_ranking = None
    /\ top_rows = None

\* Text (identifiers, paths, source lines) is a sequence of characters.
\* A node: its class, its name (definitions) or id (Name nodes), its parent
\* (0 for the root) and len(node.values) (BoolOp nodes).
Node(k, nm, p, nv) == [kind |-> k, name |-> nm, parent |-> p, nvalues |-> nv]

\* A node of a file's tree carries besides: what ast.get_docstring returns for
\* it ("None", "" or "text"), its ctx (Name nodes), its arguments (function
\* definitions) and its aliases (Import and ImportFrom nodes).
NoArgs == [args |-> << >>, kwonlyargs |-> << >>, vararg |-> None, kwarg |-> None]

FileNode(k, nm, doc, ctx, args, names) ==
    [kind |-> k, name |-> nm, parent |-> 0, nvalues |-> 0,
     doc |-> doc, ctx |-> ctx, args |-> args, names |-> names]

Alias(name, asname) == [name |-> name, asname |-> asname]

\* ast.iter_child_nodes(node), in order
RECURSIVE ChildrenFrom(_, _, _)
ChildrenFrom(t, n, i) ==
    IF i > Len(t) THEN << >>
    ELSE IF t[i].parent = n THEN <<i>> \o ChildrenFrom(t, n, i + 1)
    ELSE ChildrenFrom(t, n, i + 1)

iter_child_nodes(t, n) == ChildrenFrom(t, n, 1)

\* ast.walk(node): breadth-first, from a deque of nodes still to yield
RECURSIVE WalkTodo(_, _, _)
WalkTodo(t, todo, acc) ==
    IF todo = << >> THEN acc
    ELSE WalkTodo(t, Tail(todo) \o iter_child_nodes(t, Head(todo)),
                  Append(acc, Head(todo)))

RECURSIVE WalkTodoOwnScope(_, _, _)
WalkTodoOwnScope(t, todo, acc) ==
    IF todo = << >> THEN acc
    ELSE WalkTodoOwnScope(t,
             Tail(todo) \o SelectSeq(iter_child_nodes(t, Head(todo)),
                                     LAMBDA c : t[c].kind \notin FunctionKinds),
             Append(acc, Head(todo)))

WalkOwnScope(t, n) == WalkTodoOwnScope(t, <<n>>, << >>)

walk(t, n) == WalkTodo(t, <<n>>, << >>)

\* The parser numbers nodes in pre-order: a node's parent is the previous
\* node or one of the previous node's ancestors.
RECURSIVE IsAncestorOrSelf(_, _, _)
IsAncestorOrSelf(t, a, n) ==
    IF n = 0 THEN FALSE
    ELSE IF a = n THEN TRUE
    ELSE IsAncestorOrSelf(t, a, t[n].parent)

PreOrdered(t) ==
    /\ t[1].parent = 0
    /\ \A i \in 2..Len(t) : IsAncestorOrSelf(t, t[i].parent, i - 1)

\* The positions a parser gives when every node starts on a line of its own:
\* lineno is the node's pre-order number, end_lineno its last descendant's.
lineno(t, n) == n
RECURSIVE LastDescendant(_, _, _)
LastDescendant(t, n, e) ==
    IF e < Len(t) /\ t[e + 1].parent >= n THEN LastDescendant(t, n, e + 1) ELSE e

end_lineno(t, n) == LastDescendant(t, n, n)

\* The node alphabets the trees are drawn from, by the analysis they feed.
decision_nodes ==
    {"If", "For", "While", "ExceptHandler", "With", "Assert", "Try",
     "AsyncFor", "AsyncWith"}
NestNodesWithHandler ==
    {"If", "For", "While", "Try", "With", "AsyncFor", "AsyncWith", "ExceptHandler"}

nest_nodes == {"If", "For", "While", "Try", "With", "AsyncFor", "AsyncWith"}

\* the nodes the trees below a root are made of (parents filled in later)
LabelsFor(which) ==
    IF which = "extract" THEN
        {Node(k, nm, 0, 0) : k \in DefKinds, nm \in {<<"f">>, <<"g">>}}
            \cup {Node(k, << >>, 0, 0) : k \in {"If", "Lambda"}}
    ELSE IF which = "metric" THEN
        {Node(k, << >>, 0, 0) : k \in decision_nodes \cup {"Expr"}}
            \cup {Node("FunctionDef", <<"g">>, 0, 0)}
            \cup {Node("BoolOp", << >>, 0, nv) : nv \in 2..(2 + MaxExtraOperands)}
    ELSE IF which = "nested" THEN
        {Node(k, << >>, 0, 0) : k \in {"If", "Assert", "Expr"}}
            \cup {Node("FunctionDef", <<"g">>, 0, 0),
                  Node("AsyncFunctionDef", <<"h">>, 0, 0)}
            \cup {Node("BoolOp", << >>, 0, nv) : nv \in 2..(2 + MaxExtraOperands)}
    ELSE IF which = "nesting" THEN
        {Node(k, << >>, 0, 0) : k \in nest_nodes \cup {"Expr", "ExceptHandler"}}
            \cup {Node("FunctionDef", <<"g">>, 0, 0)}
    ELSE IF which = "naming" THEN
        {FileNode("Name", <<"X">>, "None", "Store", NoArgs, << >>),
         FileNode("Name", <<"Y">>, "None", "Store", NoArgs, << >>),
         FileNode("Name", <<"x">>, "None", "Store", NoArgs, << >>),
         FileNode("Name", <<"X">>, "None", "Load", NoArgs, << >>),
         FileNode("FunctionDef", <<"F">>, "None", "", NoArgs, << >>)}
    ELSE IF which = "import" THEN
        {FileNode("Import", << >>, "None", "", NoArgs, <<Alias(<<"o", "s">>, None)>>),
         FileNode("Import", << >>, "None", "", NoArgs,
                  <<Alias(<<"o", "s", ".", "p">>, None)>>),
         FileNode("Import", << >>, "None", "", NoArgs,
                  <<Alias(<<"o", "s">>, Some(<<"p">>))>>),
         FileNode("ImportFrom", << >>, "None", "", NoArgs, <<Alias(<<"q">>, None)>>),
         FileNode("ImportFrom", << >>, "None", "", NoArgs, <<Alias(<<"*">>, None)>>),
         FileNode("Name", <<"o", "s">>, "None", "Load", NoArgs, << >>),
         FileNode("Name", <<"p">>, "None", "Load", NoArgs, << >>),
         FileNode("Name", <<"q">>, "None", "Store", NoArgs, << >>),
         FileNode("FunctionDef", <<"f">>, "None", "", NoArgs, << >>),
         FileNode("Attribute", << >>, "None", "", NoArgs, << >>)}
    ELSE
        {FileNode("FunctionDef", <<"f">>, "text", "", NoArgs, << >>),
         FileNode("FunctionDef", <<"F">>, "None", "",
                  [args |-> <<<<"X">>>>, kwonlyargs |-> <<<<"k">>>>,
                   vararg |-> Some(<<"A">>), kwarg |-> Some(<<"k", "w">>)], << >>),
         FileNode("AsyncFunctionDef", <<"G">>, "", "", NoArgs, << >>),
         FileNode("ClassDef", <<"C">>, "text", "", NoArgs, << >>),
         FileNode("ClassDef", <<"c">>, "None", "", NoArgs, << >>),
         FileNode("Name", <<"x">>, "None", "Store", NoArgs, << >>),
         FileNode("Name", <<"X">>, "None", "Store", NoArgs, << >>),
         FileNode("Name", <<"_", "_", "X", "_", "_">>, "None", "Store", NoArgs, << >>),
         FileNode("Name", <<"o", "s">>, "None", "Load", NoArgs, << >>),
         FileNode("Import", << >>, "None", "", NoArgs, <<Alias(<<"o", "s">>, None)>>)}

\* the parent vectors of the pre-ordered trees of n nodes
RECURSIVE AncestorIn(_, _, _)
AncestorIn(pv, a, n) ==
    IF n = 0 THEN FALSE ELSE IF a = n THEN TRUE ELSE AncestorIn(pv, a, pv[n])

Shapes(n) ==
    {pv \in [1..n -> 0..(n - 1)] :
        /\ pv[1] = 0
        /\ \A i \in 2..n : pv[i] >= 1 /\ pv[i] < i /\ AncestorIn(pv, pv[i], i - 1)}

\* A BoolOp's children are among its values: it has no more compound
\* operands than len(node.values).
WellFormed(t) ==
    \A n \in 1..Len(t) :
        t[n].kind = "BoolOp" => Len(iter_child_nodes(t, n)) <= t[n].nvalues

\* the tree of a root, a parent vector and the labels of the other nodes
MakeTree(root, pv, lab) ==
    [i \in 1..Len(pv) |->
        IF i = 1 THEN root ELSE [lab[i] EXCEPT !.parent = pv[i]]]

\* t is a pre-ordered tree of n nodes under the given root
IsTreeOf(t, n, root, which) ==
    \E pv \in Shapes(n) : \E lab \in [2..n -> LabelsFor(which)] :
        /\ t = MakeTree(root, pv, lab)
        /\ WellFormed(t)

\* t is a pre-ordered tree of at most max nodes under the given root
IsTreeOver(t, max, root, which) == \E n \in 1..max : IsTreeOf(t, n, root, which)

(***************************************************************************)
(* Function extractor: list_functions                                      *)
(***************************************************************************)
\* ".".join(scope_stack)
RECURSIVE JoinDot(_)
JoinDot(stack) ==
    IF stack = << >> THEN << >>
    ELSE IF Len(stack) = 1 THEN stack[1]
    ELSE stack[1] \o <<".">> \o JoinDot(Tail(stack))

\* The state of one run of list_functions: where it stands, the visitor's
\* call stack (node, next child), scope_stack and functions.
LfState(at, fr, stack, funcs) ==
    [pc |-> at, frames |-> fr, scope_stack |-> stack, functions |-> funcs]

\* functions = [], scope_stack = [], before FunctionVisitor().visit(tree)
LfStart == LfState("start", << >>, << >>, << >>)

\* The node the visitor is about to visit: the root at the start, otherwise
\* the next child of the node whose generic_visit is running (0: none left).
NextToVisit(t, st) ==
    IF st.pc = "start" THEN 1
    ELSE IF st.pc = "walk" /\ st.frames # << >> THEN
        LET top == st.frames[Len(st.frames)]
            kids == iter_child_nodes(t, top.node)
        IN IF top.idx <= Len(kids) THEN kids[top.idx] ELSE 0
    ELSE 0

\* Entering visit(node): the caller's loop moves on, a frame is pushed.
Enter(fr, n) ==
    LET moved == IF fr = << >> THEN fr ELSE [fr EXCEPT ![Len(fr)].idx = @ + 1]
    IN Append(moved, [node |-> n, idx |-> 1])

\* visit_ClassDef, up to its call of generic_visit
ClassDefStep(t, st) ==
    LET node == NextToVisit(t, st)
    IN LfState("walk", Enter(st.frames, node),
               Append(st.scope_stack, t[node].name), st.functions)

\* visit_FunctionDef, up to its call of generic_visit
FunctionDefStep(t, st) ==
    LET node == NextToVisit(t, st)
        stack == Append(st.scope_stack, t[node].name)
        full_name == JoinDot(stack)
    IN LfState("walk", Enter(st.frames, node), stack,
               Append(st.functions, <<full_name, node>>))

AsyncFunctionDefStepUnrecorded(t, st) ==
    LET node == NextToVisit(t, st)
    IN LfState("walk", Enter(st.frames, node),
               Append(st.scope_stack, t[node].name), st.functions)

\* visit_AsyncFunctionDef, up to its call of generic_visit
AsyncFunctionDefStep(t, st) ==
    LET node == NextToVisit(t, st)
        stack == Append(st.scope_stack, t[node].name)
        full_name == JoinDot(stack)
    IN LfState("walk", Enter(st.frames, node), stack,
               Append(st.functions, <<full_name, node>>))

\* NodeVisitor.visit on a node with no visit_<Class> method: generic_visit
GenericStep(t, st) ==
    LfState("walk", Enter(st.frames, NextToVisit(t, st)), st.scope_stack,
            st.functions)

ReturnStepClassKept(t, st) ==
    LET top == st.frames[Len(st.frames)]
    IN LfState(IF Len(st.frames) = 1 THEN "done" ELSE "walk",
               SubSeq(st.frames, 1, Len(st.frames) - 1),
               IF t[top.node].kind \in FunctionKinds
               THEN SubSeq(st.scope_stack, 1, Len(st.scope_stack) - 1)
               ELSE st.scope_stack,
               st.functions)

\* generic_visit has run out of children: the visit method returns, after
\* scope_stack.pop() in the three visit_<Class> methods.
ReturnStep(t, st) ==
    LET top == st.frames[Len(st.frames)]
    IN LfState(IF Len(st.frames) = 1 THEN "done" ELSE "walk",
               SubSeq(st.frames, 1, Len(st.frames) - 1),
               IF t[top.node].kind \in DefKinds
               THEN SubSeq(st.scope_stack, 1, Len(st.scope_stack) - 1)
               ELSE st.scope_stack,
               st.functions)

\* one step of the traversal: NodeVisitor.visit dispatches on the class
LfStep(t, st) ==
    LET node == NextToVisit(t, st)
    IN IF node = 0 THEN ReturnStep(t, st)
       ELSE IF t[node].kind = "ClassDef" THEN ClassDefStep(t, st)
       ELSE IF t[node].kind = "FunctionDef" THEN FunctionDefStep(t, st)
       ELSE IF t[node].kind = "AsyncFunctionDef" THEN AsyncFunctionDefStep(t, st)
       ELSE GenericStep(t, st)

\* list_functions(tree), run to its return
RECURSIVE LfRun(_, _)
LfRun(t, st) == IF st.pc = "done" THEN st ELSE LfRun(t, LfStep(t, st))

ListFunctions(t) == LfRun(t, LfStart).functions

\* the run of list_functions that the state holds
Lf == LfState(lf_pc, frames, scope_stack, functions)

SetLf(st) ==
    /\ lf_pc' = st.pc
    /\ frames' = st.frames
    /\ scope_stack' = st.scope_stack
    /\ functions' = st.functions

VisitClassDef ==
    /\ NextToVisit(tree, Lf) # 0
    /\ tree[NextToVisit(tree, Lf)].kind = "ClassDef"
    /\ SetLf(ClassDefStep(tree, Lf))
    /\ UNCHANGED outsideExtract

VisitFunctionDef ==
    /\ NextToVisit(tree, Lf) # 0
    /\ tree[NextToVisit(tree, Lf)].kind = "FunctionDef"
    /\ SetLf(FunctionDefStep(tree, Lf))
    /\ UNCHANGED outsideExtract

VisitAsyncFunctionDef ==
    /\ NextToVisit(tree, Lf) # 0
    /\ tree[NextToVisit(tree, Lf)].kind = "AsyncFunctionDef"
    /\ SetLf(AsyncFunctionDefStep(tree, Lf))
    /\ UNCHANGED outsideExtract

GenericVisit ==
    /\ NextToVisit(tree, Lf) # 0
    /\ tree[NextToVisit(tree, Lf)].kind \notin DefKinds
    /\ SetLf(GenericStep(tree, Lf))
    /\ UNCHANGED outsideExtract

Return ==
    /\ lf_pc = "walk"
    /\ NextToVisit(tree, Lf) = 0
    /\ SetLf(ReturnStep(tree, Lf))
    /\ UNCHANGED outsideExtract

list_functions ==
    \/ VisitClassDef
    \/ VisitFunctionDef
    \/ VisitAsyncFunctionDef
    \/ GenericVisit
    \/ Return

InitExtract ==
    /\ IsTreeOver(tree, MaxNodes, Node("Module", << >>, 0, 0), "extract")
    /\ has_pos = TRUE
    /\ source = << >>
    /\ IdleExtract /\ IdleMetrics /\ IdleFile /\ IdleCli /\ IdleStats /\ IdleReport

SpecExtract == InitExtract /\ [][list_functions]_vars

----------------------------------------------------------------------------
(***************************************************************************)
(* C1: when list_functions has returned, its list holds exactly one pair   *)
(* for each function or method definition of the tree (synchronous or      *)
(* asynchronous, at any nesting in classes and functions) and none for any *)
(* other node, and each pair's name is the names of the enclosing class    *)
(* and function definitions, outermost first, then the function's own      *)
(* name, joined by '.'.                                                    *)
(***************************************************************************)
\* the nearest enclosing class or function definition of node n (0: none)
RECURSIVE EnclosingDef(_, _)
EnclosingDef(t, n) ==
    IF t[n].parent = 0 THEN 0
    ELSE IF t[t[n].parent].kind \in {"ClassDef", "FunctionDef", "AsyncFunctionDef"}
         THEN t[n].parent
    ELSE EnclosingDef(t, t[n].parent)

RECURSIVE QualifiedName(_, _)
QualifiedName(t, n) ==
    IF EnclosingDef(t, n) = 0 THEN t[n].name
    ELSE QualifiedName(t, EnclosingDef(t, n)) \o <<".">> \o t[n].name

C1_ListFunctionsExact ==
    lf_pc = "done" =>
        /\ \A n \in 1..Len(tree) :
              tree[n].kind \in {"FunctionDef", "AsyncFunctionDef"} =>
                  Cardinality({i \in 1..Len(functions) : functions[i][2] = n}) = 1
        /\ \A i \in 1..Len(functions) :
              /\ tree[functions[i][2]].kind \in {"FunctionDef", "AsyncFunctionDef"}
              /\ functions[i][1] = QualifiedName(tree, functions[i][2])

\* class f: def g: async def f - extracted as "f.g" and "f.g.f"
C1_Witness ==
    /\ lf_pc = "done"
    /\ Len(tree) = 4
    /\ tree[2].kind = "ClassDef" /\ tree[3].kind = "FunctionDef"
    /\ tree[4].kind = "AsyncFunctionDef"
    /\ tree[3].parent = 2 /\ tree[4].parent = 3
    /\ Len(functions) = 2
    /\ functions[2][1] = <<"f", ".", "g", ".", "f">>

----------------------------------------------------------------------------
(***************************************************************************)
(* Metrics engine, function level: calc_cc, calc_length, calc_max_nesting  *)
(* and collect_func_metrics.  The trees are function subtrees; leaves the  *)
(* function metrics never test (names, constants, operator and context     *)
(* nodes) are not carried, so a BoolOp records len(node.values) and has    *)
(* only its compound operands as children.                                 *)
(***************************************************************************)
bool_ops == {"And", "Or"}

\* the body of calc_cc's loop for one node
CcStepNoAssert(t, node, complexity) ==
    IF t[node].kind \in decision_nodes \ {"Assert"} THEN complexity + 1
    ELSE IF t[node].kind = "BoolOp" THEN complexity + t[node].nvalues - 1
    ELSE complexity

CcStepNoWith(t, node, complexity) ==
    IF t[node].kind \in decision_nodes \ {"With", "AsyncWith"} THEN complexity + 1
    ELSE IF t[node].kind = "BoolOp" THEN complexity + t[node].nvalues - 1
    ELSE complexity

CcStep(t, node, complexity) ==
    IF t[node].kind \in decision_nodes THEN complexity + 1
    ELSE IF t[node].kind = "BoolOp" THEN complexity + t[node].nvalues - 1
    ELSE complexity

RECURSIVE CcLoop(_, _, _)
CcLoop(t, nodes, complexity) ==
    IF nodes = << >> THEN complexity
    ELSE CcLoop(t, Tail(nodes), CcStep(t, Head(nodes), complexity))

CcInitialZero == 1 - 1

\* complexity = 1
CcInitial == 1

calc_cc(t, n) == CcLoop(t, walk(t, n), CcInitial)

calc_length(t, n, pos) ==
    IF pos THEN Some(end_lineno(t, n) - lineno(t, n) + 1) ELSE None

Max(a, b) == IF a >= b THEN a ELSE b

RECURSIVE dfs(_, _, _)
RECURSIVE DfsLoop(_, _, _, _)
\* the for loop of dfs over the children still to come
DfsLoop(t, kids, depth, max_d) ==
    IF kids = << >> THEN max_d
    ELSE IF t[Head(kids)].kind \in nest_nodes
         THEN DfsLoop(t, Tail(kids), depth,
                      Max(max_d, dfs(t, Head(kids), depth + 1)))
    ELSE DfsLoop(t, Tail(kids), depth, Max(max_d, dfs(t, Head(kids), depth)))

dfs(t, node, depth) == DfsLoop(t, iter_child_nodes(t, node), depth, depth)

calc_max_nesting(t, n) == dfs(t, n, 0)

FuncMetrics(t, n, pos) ==
    [cc |-> calc_cc(t, n),
     length |-> calc_length(t, n, pos),
     max_nest |-> calc_max_nesting(t, n)]

\* collect_func_metrics(func_node), for a function node of the tree
collect_func_metrics ==
    /\ func_node = 0
    /\ \E n \in {i \in 1..Len(tree) : tree[i].kind \in FunctionKinds} :
            /\ func_node' = n
            /\ m' = FuncMetrics(tree, n, has_pos)
            /\ UNCHANGED outsideMetrics

\* every node of a tree the parser made exposes its positions
InitMetrics ==
    /\ IsTreeOver(tree, MaxBody + 1, Node("FunctionDef", <<"f">>, 0, 0), "metric")
    /\ has_pos = TRUE
    /\ source = << >>
    /\ IdleExtract /\ IdleMetrics /\ IdleFile /\ IdleCli /\ IdleStats /\ IdleReport

NextMetrics == collect_func_metrics

SpecMetrics == InitMetrics /\ [][NextMetrics]_vars

----------------------------------------------------------------------------
\* the nodes of the subtree of n, n included
Subtree(t, n) == {i \in 1..Len(t) : IsAncestorOrSelf(t, n, i)}

RECURSIVE SumOver(_, _)
SumOver(f, S) ==
    IF S = {} THEN 0
    ELSE LET x == CHOOSE y \in S : TRUE IN f[x] + SumOver(f, S \ {x})

(***************************************************************************)
(* C2: the complexity collect_func_metrics returns for a function node is  *)
(* 1, plus the number of if, for, while, exception-handler, with, assert,  *)
(* try, async-for and async-with nodes of the function's whole subtree,    *)
(* plus, summed over the boolean and/or nodes of the subtree, the operand  *)
(* count minus 1; a function with one if, one for and one three-operand    *)
(* 'and' has complexity 5.                                                 *)
(***************************************************************************)
C2_CountedKinds ==
    {"If", "For", "While", "ExceptHandler", "With", "Assert", "Try",
     "AsyncFor", "AsyncWith"}

C2_ComplexityFormula ==
    func_node # 0 =>
        LET sub == Subtree(tree, func_node)
            extra == [i \in sub |-> IF tree[i].kind = "BoolOp"
                                    THEN tree[i].nvalues - 1 ELSE 0]
        IN /\ m.cc = 1 + Cardinality({i \in sub : tree[i].kind \in C2_CountedKinds})
                       + SumOver(extra, sub)
           /\ ( /\ Cardinality(sub) = 4
                /\ \E i, j, k \in sub :
                      /\ tree[i].kind = "If" /\ tree[j].kind = "For"
                      /\ tree[k].kind = "BoolOp" /\ tree[k].nvalues = 3 )
              => m.cc = 5

\* def f: if (a and b and c): for ...: measured, complexity 5
C2_Witness ==
    /\ func_node = 1
    /\ Len(tree) = 4
    /\ tree[2].kind = "If"
    /\ tree[3].kind = "BoolOp" /\ tree[3].nvalues = 3 /\ tree[3].parent = 2
    /\ tree[4].kind = "For" /\ tree[4].parent = 2
    /\ m.cc = 5

(***************************************************************************)
(* C3: the cyclomatic complexity of every function record is an integer    *)
(* greater than or equal to 1.                                             *)
(***************************************************************************)
C3_ComplexityAtLeastOne ==
    func_node # 0 => (m.cc \in Int /\ m.cc >= 1)

\* a function with no decision point at all has complexity exactly 1
C3_Witness ==
    /\ func_node = 1
    /\ Len(tree) = 3
    /\ \A i \in 2..3 : tree[i].kind \in {"Expr", "FunctionDef"}
    /\ m.cc = 1

----------------------------------------------------------------------------
(***************************************************************************)
(* Metrics engine, file level: collect_file_metrics(tree, source).         *)
(*                                                                         *)
(* The source text is a sequence of runs [ch, n] (n times the character    *)
(* ch); the character "\n" ends a line.                                    *)
(***************************************************************************)
\* a float: the quotient a / b, kept as the fraction in lowest terms
RECURSIVE Gcd(_, _)
Gcd(a, b) == IF b = 0 THEN a ELSE Gcd(b, a % b)

Div(a, b) == [num |-> a \div Gcd(a, b), den |-> b \div Gcd(a, b)]

\* 0.0
Zero == [num |-> 0, den |-> 1]

\* source.splitlines(): the lines of the text, line ends dropped
RECURSIVE SplitRuns(_, _, _, _)
\* cur: the line being read; open: whether that line has begun
SplitRuns(src, lines, cur, open) ==
    IF src = << >> THEN (IF open THEN Append(lines, cur) ELSE lines)
    ELSE IF Head(src).ch = "\n" THEN
        SplitRuns(Tail(src),
                  Append(lines, cur) \o [i \in 1..(Head(src).n - 1) |-> << >>],
                  << >>, FALSE)
    ELSE SplitRuns(Tail(src), lines, Append(cur, Head(src)), TRUE)

splitlines(src) == SplitRuns(src, << >>, << >>, FALSE)

\* len(line)
RECURSIVE LineLen(_)
LineLen(line) == IF line = << >> THEN 0 ELSE Head(line).n + LineLen(Tail(line))

\* line.strip().startswith("#")
RECURSIVE StripStartsWithHash(_)
StripStartsWithHash(line) ==
    IF line = << >> THEN FALSE
    ELSE IF Head(line).ch = " " THEN StripStartsWithHash(Tail(line))
    ELSE Head(line).ch = "#"

RECURSIVE CountSeq(_, _)
\* how many elements of a sequence of booleans are TRUE
CountSeq(flags, i) ==
    IF i > Len(flags) THEN 0
    ELSE (IF flags[i] THEN 1 ELSE 0) + CountSeq(flags, i + 1)

calc_comment_ratio(src) ==
    LET lines == splitlines(src)
    IN IF lines = << >> THEN Zero
       ELSE Div(CountSeq([i \in 1..Len(lines) |-> StripStartsWithHash(lines[i])], 1),
                Len(lines))

\* limit: int = 79
limit == 79

calc_long_line_ratio(src) ==
    LET lines == splitlines(src)
    IN IF lines = << >> THEN Zero
       ELSE Div(CountSeq([i \in 1..Len(lines) |-> LineLen(lines[i]) > limit], 1),
                Len(lines))

Lower == {"a", "b", "c", "d", "e", "f", "g", "h", "i", "j", "k", "l", "m",
          "n", "o", "p", "q", "r", "s", "t", "u", "v", "w", "x", "y", "z"}
Upper == {"A", "B", "C", "D", "E", "F", "G", "H", "I", "J", "K", "L", "M",
          "N", "O", "P", "Q", "R", "S", "T", "U", "V", "W", "X", "Y", "Z"}
Digit == {"0", "1", "2", "3", "4", "5", "6", "7", "8", "9"}

\* SNAKE_CASE_RE = ^[a-z_][a-z0-9_]*$
_is_snake_case(name) ==
    /\ name # << >>
    /\ name[1] \in Lower \cup {"_"}
    /\ \A i \in 2..Len(name) : name[i] \in Lower \cup Digit \cup {"_"}

\* CAPWORDS_RE = ^[A-Z][a-zA-Z0-9]*$
_is_capwords(name) ==
    /\ name # << >>
    /\ name[1] \in Upper
    /\ \A i \in 2..Len(name) : name[i] \in Lower \cup Upper \cup Digit

\* the result of a checker: (total_checked, issues)
Checked(total, issues) == [total_checked |-> total, issues |-> issues]

RECURSIVE FuncClassLoop(_, _, _)
FuncClassLoop(t, nodes, acc) ==
    IF nodes = << >> THEN acc
    ELSE LET node == t[Head(nodes)]
             next ==
               IF node.kind = "FunctionDef" THEN
                   Checked(acc.total_checked + 1,
                           IF ~_is_snake_case(node.name)
                           THEN Append(acc.issues, <<"Function name not snake_case", node.name>>)
                           ELSE acc.issues)
               ELSE IF node.kind = "AsyncFunctionDef" THEN
                   Checked(acc.total_checked + 1,
                           IF ~_is_snake_case(node.name)
                           THEN Append(acc.issues, <<"Async function name not snake_case", node.name>>)
                           ELSE acc.issues)
               ELSE IF node.kind = "ClassDef" THEN
                   Checked(acc.total_checked + 1,
                           IF ~_is_capwords(node.name)
                           THEN Append(acc.issues, <<"Class name not CapWords", node.name>>)
                           ELSE acc.issues)
               ELSE acc
         IN FuncClassLoop(t, Tail(nodes), next)

check_func_and_class_names(t) == FuncClassLoop(t, walk(t, 1), Checked(0, << >>))

\* one name checked against snake_case, with the message of its kind
CheckOne(acc, name, msg) ==
    Checked(acc.total_checked + 1,
            IF ~_is_snake_case(name) THEN Append(acc.issues, <<msg, name>>)
            ELSE acc.issues)

RECURSIVE CheckEach(_, _, _)
CheckEach(acc, names, msg) ==
    IF names = << >> THEN acc
    ELSE CheckEach(CheckOne(acc, Head(names), msg), Tail(names), msg)

RECURSIVE ArgLoop(_, _, _)
ArgLoop(t, nodes, acc) ==
    IF nodes = << >> THEN acc
    ELSE LET node == t[Head(nodes)]
             a1 == CheckEach(acc, node.args.args \o node.args.kwonlyargs,
                             "Argument name not snake_case")
             a2 == IF node.args.vararg # None
                   THEN CheckOne(a1, node.args.vararg[1], "*args name not snake_case")
                   ELSE a1
             a3 == IF node.args.kwarg # None
                   THEN CheckOne(a2, node.args.kwarg[1], "**kwargs name not snake_case")
                   ELSE a2
         IN ArgLoop(t, Tail(nodes),
                    IF node.kind \in {"FunctionDef", "AsyncFunctionDef"} THEN a3 ELSE acc)

check_arg_names(t) == ArgLoop(t, walk(t, 1), Checked(0, << >>))

\* store_names: the ids of the Name nodes in Store context, as a set
StoreNames(t) ==
    {t[n].name : n \in {i \in 1..Len(t) : t[i].kind = "Name" /\ t[i].ctx = "Store"}}

\* name.startswith("__") and name.endswith("__")
IsDunder(name) ==
    /\ Len(name) >= 2
    /\ name[1] = "_" /\ name[2] = "_"
    /\ name[Len(name) - 1] = "_" /\ name[Len(name)] = "_"

RECURSIVE VarLoop(_, _)
VarLoop(names, acc) ==
    IF names = << >> THEN acc
    ELSE IF Head(names) = <<"_">> \/ IsDunder(Head(names))
         THEN VarLoop(Tail(names), acc)
    ELSE VarLoop(Tail(names),
                 CheckOne(acc, Head(names), "Variable name not snake_case"))

\* the orders in which a set may be iterated
Orders(S) ==
    {o \in [1..Cardinality(S) -> S] : \A i, j \in 1..Cardinality(S) : i # j => o[i] # o[j]}

\* check_var_names, iterating store_names in the given order
check_var_names(t, order) == VarLoop(order, Checked(0, << >>))

collect_naming_issues(t, order) ==
    LET c1 == check_func_and_class_names(t)
        c2 == check_arg_names(t)
        c3 == check_var_names(t, order)
        total_checked == c1.total_checked + c2.total_checked + c3.total_checked
        issues == c1.issues \o c2.issues \o c3.issues
    IN [ratio |-> IF total_checked > 0 THEN Div(Len(issues), total_checked) ELSE Zero,
        issues |-> issues]

\* bool(ast.get_docstring(node)): a docstring that is empty once cleaned is falsy
HasDocstring(t, n) == t[n].doc = "text"

TotalDefsNoModule(t) == Cardinality({i \in 1..Len(t) : t[i].kind \in DefKinds})

\* total_defs = len(defs) + 1
TotalDefs(t) == Cardinality({i \in 1..Len(t) : t[i].kind \in DefKinds}) + 1

calc_docstring_coverage(t) ==
    LET defs == {i \in 1..Len(t) : t[i].kind \in DefKinds}
        total_defs == TotalDefs(t)
        doc_with == (IF HasDocstring(t, 1) THEN 1 ELSE 0)
                    + Cardinality({d \in defs : HasDocstring(t, d)})
    IN IF total_defs > 0 THEN Div(doc_with, total_defs) ELSE Zero

\* alias.name.split(".")[0]
BeforeDotWhole(name) == name

\* alias.name.split(".")[0]
RECURSIVE BeforeDot(_)
BeforeDot(name) ==
    IF name = << >> \/ Head(name) = "." THEN << >>
    ELSE <<Head(name)>> \o BeforeDot(Tail(name))

\* the name an alias binds, or None for "from m import *"
Bound(kind, alias) ==
    IF kind = "Import"
    THEN Some(IF alias.asname # None THEN alias.asname[1] ELSE BeforeDot(alias.name))
    ELSE IF alias.name = <<"*">> THEN None
    ELSE Some(IF alias.asname # None THEN alias.asname[1] ELSE alias.name)

\* the characters of the model in code point order
Ascii ==
    <<"*", ".", "/", "0", "1", "2", "3", "4", "5", "6", "7", "8", "9",
      "A", "B", "C", "D", "E", "F", "G", "H", "I", "J", "K", "L", "M",
      "N", "O", "P", "Q", "R", "S", "T", "U", "V", "W", "X", "Y", "Z", "_",
      "a", "b", "c", "d", "e", "f", "g", "h", "i", "j", "k", "l", "m",
      "n", "o", "p", "q", "r", "s", "t", "u", "v", "w", "x", "y", "z">>

CodePoint(c) == CHOOSE i \in 1..Len(Ascii) : Ascii[i] = c

\* text compared as Python compares str: by code point, a prefix first
RECURSIVE StrLess(_, _)
StrLess(a, b) ==
    IF b = << >> THEN FALSE
    ELSE IF a = << >> THEN TRUE
    ELSE IF Head(a) = Head(b) THEN StrLess(Tail(a), Tail(b))
    ELSE CodePoint(Head(a)) < CodePoint(Head(b))

\* sorted(S), for a set of texts
RECURSIVE Sorted(_)
Sorted(S) ==
    IF S = {} THEN << >>
    ELSE LET least == CHOOSE x \in S : \A y \in S \ {x} : StrLess(x, y)
         IN <<least>> \o Sorted(S \ {least})

calc_unused_imports(t) ==
    LET imports == {i \in 1..Len(t) : t[i].kind \in {"Import", "ImportFrom"}}
        imported == {b[1] : b \in UNION {{Bound(t[i].kind, t[i].names[k]) :
                                              k \in 1..Len(t[i].names)} :
                                            i \in imports} \ {None}}
        used == {t[n].name : n \in {i \in 1..Len(t) :
                                      t[i].kind = "Name" /\ t[i].ctx = "Load"}}
    IN Sorted({x \in imported : x \notin used})

FileMetrics(t, src, order) ==
    LET naming == collect_naming_issues(t, order)
    IN [comment_ratio |-> calc_comment_ratio(src),
        docstring_coverage |-> calc_docstring_coverage(t),
        long_line_ratio |-> calc_long_line_ratio(src),
        naming_issue_ratio |-> naming.ratio,
        naming_issues |-> naming.issues,
        unused_imports |-> calc_unused_imports(t)]

\* collect_file_metrics(tree, source); the set store_names is iterated in an
\* order the interpreter's string hashing decides
collect_file_metrics ==
    /\ fm = None
    /\ \E order \in Orders(StoreNames(tree)) :
          fm' = FileMetrics(tree, source, order)
    /\ UNCHANGED <<source, outsideFile>>

\* the runs a source text is made of
LongRun == limit + 1
SourceRuns ==
    {[ch |-> c, n |-> 1] : c \in {" ", "#", "x", "\n"}} \cup {[ch |-> "x", n |-> LongRun]}

InitFile ==
    /\ \E n \in 1..(MaxFileInput + 1) :
          /\ \E doc \in {"None", "text"} :
                IsTreeOf(tree, n, FileNode("Module", << >>, doc, "", NoArgs, << >>), "file")
          /\ \E j \in 0..(MaxFileInput + 1 - n) : source \in [1..j -> SourceRuns]
    /\ has_pos = TRUE
    /\ IdleExtract /\ IdleMetrics /\ IdleFile /\ IdleCli /\ IdleStats /\ IdleReport

NextFile == collect_file_metrics

SpecFile == InitFile /\ [][NextFile]_vars

----------------------------------------------------------------------------
(***************************************************************************)
(* C6: each of comment_ratio, long_line_ratio, docstring_coverage and      *)
(* naming_issue_ratio that collect_file_metrics returns lies in [0, 1],    *)
(* and all four are 0 for an empty file (no text, a tree with nothing in   *)
(* it).                                                                    *)
(***************************************************************************)
C6_InUnitInterval(r) == 0 <= r.num /\ r.num <= r.den /\ r.den > 0

C6_RatiosInUnitInterval ==
    fm # None =>
        /\ C6_InUnitInterval(fm.comment_ratio)
        /\ C6_InUnitInterval(fm.long_line_ratio)
        /\ C6_InUnitInterval(fm.docstring_coverage)
        /\ C6_InUnitInterval(fm.naming_issue_ratio)
        /\ (source = << >> /\ Len(tree) = 1 /\ tree[1].doc = "None") =>
              /\ fm.comment_ratio.num = 0
              /\ fm.long_line_ratio.num = 0
              /\ fm.docstring_coverage.num = 0
              /\ fm.naming_issue_ratio.num = 0

\* a documented module holding one documented function with a badly named
\* variable, under a comment line: three of the ratios are 1
C6_Witness ==
    /\ fm # None
    /\ fm.docstring_coverage = [num |-> 1, den |-> 1]
    /\ Len(tree) = 2
    /\ fm.comment_ratio = [num |-> 1, den |-> 1]
    /\ fm.long_line_ratio = [num |-> 0, den |-> 1]

\* the empty file, measured
C6_WitnessEmpty ==
    /\ fm # None
    /\ source = << >>
    /\ Len(tree) = 1 /\ tree[1].doc = "None"
    /\ fm.docstring_coverage.num = 0

----------------------------------------------------------------------------
(***************************************************************************)
(* The command line (cli.py): the file system it reads, get_python_files,  *)
(* collect_python_files, generate_results, output_results and analyze with *)
(* --plots, --html, --json and --output left at their defaults.            *)
(***************************************************************************)
\* the paths given on the command line, at most
MaxPaths == 2

\* A path is the text of its string; the file system maps the paths that
\* exist to a directory or to a regular file with its content.
Dir == [type |-> "dir"]
File(c) == [type |-> "file", content |-> c]

is_file(fsys, p) == p \in DOMAIN fsys /\ fsys[p].type = "file"
is_dir(fsys, p) == p \in DOMAIN fsys /\ fsys[p].type = "dir"

IsPrefix(a, b) == Len(a) <= Len(b) /\ SubSeq(b, 1, Len(a)) = a
EndsWith(s, e) == Len(e) <= Len(s) /\ SubSeq(s, Len(s) - Len(e) + 1, Len(s)) = e

\* ig in s, on strings
Contains(s, ig) ==
    \E i \in 0..(Len(s) - Len(ig)) : SubSeq(s, i + 1, i + Len(ig)) = ig

\* s.rfind(c) + 1: the last position of c in s, 0 when it is not there
RECURSIVE RFind(_, _)
RFind(s, c) ==
    IF s = << >> THEN 0
    ELSE IF s[Len(s)] = c THEN Len(s)
    ELSE RFind(SubSeq(s, 1, Len(s) - 1), c)

\* Path.name: the last component of the path
PathName(p) == SubSeq(p, RFind(p, "/") + 1, Len(p))

\* Path.suffix: from the last dot of the name, unless the name starts or
\* ends with it
PathSuffix(p) ==
    LET name == PathName(p)
        i == RFind(name, ".")
    IN IF 1 < i /\ i < Len(name) THEN SubSeq(name, i, Len(name)) ELSE << >>

DotPy == <<".", "p", "y">>

\* p.rglob("*.py"): every entry below p, file or directory, whose name
\* matches the pattern
rglob(fsys, p) ==
    {q \in DOMAIN fsys : IsPrefix(p \o <<"/">>, q) /\ EndsWith(PathName(q), DotPy)}

\* _skip(fp): any(ig in s for ig in ignore)
_skip(fp, ign) == \E k \in 1..Len(ign) : Contains(fp, ign[k])

Raise(exc) == [raised |-> exc, files |-> << >>]
Returns(files) == [raised |-> "", files |-> files]

\* the is_dir branch of get_python_files, over the entries rglob yields in
\* the order the directory walk yields them
ScanDirectory(walked, ign) ==
    LET python_files == SelectSeq(walked, LAMBDA f : ~_skip(f, ign))
    IN IF python_files # << >> THEN Returns(python_files)
       ELSE Raise("FileNotFoundError")

\* the entries p.rglob("*.py") yields, in the order the file system lists
\* them
Walk(fsys, order, p) == SelectSeq(order, LAMBDA q : q \in rglob(fsys, p))

\* get_python_files(path, ignore)
get_python_files(fsys, path, ign, walked) ==
    IF is_file(fsys, path) THEN
        IF PathSuffix(path) = DotPy THEN
            IF _skip(path, ign) THEN Returns(<< >>) ELSE Returns(<<path>>)
        ELSE Raise("FileNotFoundError")
    ELSE IF is_dir(fsys, path) THEN ScanDirectory(walked, ign)
    ELSE Raise("FileNotFoundError")

\* What a regular file holds: text that ast.parse accepts, with the tree it
\* parses to, or text that fails with the named error.  "deep" is an
\* expression nested deeper than the interpreter's recursion limit: ast.parse
\* and ast.walk get through it, NodeVisitor.visit raises RecursionError.
Under(node, p) == [node EXCEPT !.parent = p]
Parsed(t, src) == [fault |-> "", tree |-> t, source |-> src]
Failing(exc) == [fault |-> exc, tree |-> << >>, source |-> << >>]

Content(c) ==
    CASE c = "one" ->
            Parsed(<<FileNode("Module", << >>, "text", "", NoArgs, << >>),
                     Under(FileNode("FunctionDef", <<"f">>, "None", "", NoArgs, << >>), 1),
                     Under(FileNode("If", << >>, "None", "", NoArgs, << >>), 2),
                     Under(FileNode("For", << >>, "None", "", NoArgs, << >>), 3)>>,
                   <<[ch |-> "#", n |-> 1], [ch |-> "\n", n |-> 1],
                     [ch |-> "x", n |-> 1]>>)
      [] c = "two" ->
            Parsed(<<FileNode("Module", << >>, "None", "", NoArgs, << >>),
                     Under(FileNode("ClassDef", <<"C">>, "None", "", NoArgs, << >>), 1),
                     Under(FileNode("FunctionDef", <<"F">>, "None", "", NoArgs, << >>), 2),
                     Under(FileNode("AsyncFunctionDef", <<"G">>, "", "", NoArgs, << >>), 3),
                     Under(FileNode("Name", <<"X">>, "None", "Store", NoArgs, << >>), 4),
                     Under(FileNode("Name", <<"Y">>, "None", "Store", NoArgs, << >>), 4)>>,
                   <<[ch |-> "x", n |-> 1]>>)
      [] c = "empty" ->
            Parsed(<<FileNode("Module", << >>, "None", "", NoArgs, << >>)>>, << >>)
      [] c = "deep" ->
            [fault |-> "RecursionError",
             tree |-> <<FileNode("Module", << >>, "None", "", NoArgs, << >>),
                        Under(FileNode("Expr", << >>, "None", "", NoArgs, << >>), 1)>>,
             source |-> <<[ch |-> "x", n |-> 1]>>]
      [] c = "syntax" -> Failing("SyntaxError")
      [] c = "binary" -> Failing("UnicodeDecodeError")

\* parse_source_to_ast(file_path): open, read as UTF-8, ast.parse
parse_source_to_ast(fsys, file_path) ==
    IF is_dir(fsys, file_path) THEN Failing("IsADirectoryError")
    ELSE IF ~is_file(fsys, file_path) THEN Failing("FileNotFoundError")
    ELSE LET c == Content(fsys[file_path].content)
         IN IF c.fault \in {"SyntaxError", "UnicodeDecodeError"}
            THEN Failing(c.fault)
            ELSE Parsed(c.tree, c.source)

\* f"{x:.2f}", as a number of hundredths: the nearest one, the even one of
\* two equally near.  (Two are equally near only for a ratio whose reduced
\* denominator is 8, 40 or 200.)
Fmt2(r) ==
    LET q == (r.num * 100) \div r.den
        twice == 2 * ((r.num * 100) % r.den)
    IN IF twice > r.den \/ (twice = r.den /\ q % 2 = 1) THEN q + 1 ELSE q

FileStatListingIssues(file_path, metrics) ==
    [file |-> file_path,
     comment_ratio |-> metrics.comment_ratio,
     docstring_coverage |-> metrics.docstring_coverage,
     long_line_ratio |-> metrics.long_line_ratio,
     naming_issue_ratio |-> metrics.naming_issue_ratio,
     unused_imports_count |-> Len(metrics.unused_imports),
     unused_imports |-> metrics.naming_issues]

\* the dict appended to file_stats
FileStat(file_path, metrics) ==
    [file |-> file_path,
     comment_ratio |-> metrics.comment_ratio,
     docstring_coverage |-> metrics.docstring_coverage,
     long_line_ratio |-> metrics.long_line_ratio,
     naming_issue_ratio |-> metrics.naming_issue_ratio,
     unused_imports_count |-> Len(metrics.unused_imports),
     unused_imports |-> metrics.unused_imports]

\* the line appended to file_summaries, as the values it prints
FileSummary(file_path, metrics) ==
    [file |-> file_path,
     COMMENT_RATIO |-> Fmt2(metrics.comment_ratio),
     DOCSTRING_COV |-> Fmt2(metrics.docstring_coverage),
     LONG_LINE_RATIO |-> Fmt2(metrics.long_line_ratio),
     NAMING_ISSUE_RATIO |-> Fmt2(metrics.naming_issue_ratio),
     UNUSED_IMPORTS |-> Len(metrics.unused_imports)]

\* the dict appended to func_stats
FuncStat(file_path, func_name, t, n, fmet) ==
    [file |-> file_path,
     name |-> func_name,
     cc |-> fmet.cc,
     length |-> IF fmet.length # None THEN fmet.length[1] ELSE 0,
     nest |-> fmet.max_nest,
     lineno |-> lineno(t, n)]

\* the line appended to func_results, as the values it prints
FuncResult(file_path, func_name, fmet) ==
    [file |-> file_path, Function |-> func_name, CC |-> fmet.cc,
     LEN |-> fmet.length, NEST |-> fmet.max_nest]

\* what one pass of the loop body leaves behind: the exception that ended it
\* ("" for none) and what it appended to the four lists before that
Pass(exc, fstats, fsums, ustats, ures) ==
    [raised |-> exc, file_stats |-> fstats, file_summaries |-> fsums,
     func_stats |-> ustats, func_results |-> ures]

\* for func_name, func_node in functions: ...
RECURSIVE FuncLoop(_, _, _, _, _)
FuncLoop(file_path, t, funcs, thr, acc) ==
    IF funcs = << >> THEN acc
    ELSE LET func_name == Head(funcs)[1]
             node == Head(funcs)[2]
             fmet == FuncMetrics(t, node, has_pos)
         IN FuncLoop(file_path, t, Tail(funcs), thr,
                [acc EXCEPT
                   !.func_stats = Append(@, FuncStat(file_path, func_name, t, node, fmet)),
                   !.func_results = IF fmet.cc >= thr
                                    THEN Append(@, FuncResult(file_path, func_name, fmet))
                                    ELSE @])

\* the body of the loop of generate_results, for one file
FileBody(fsys, file_path, thr, order) ==
    LET parsed == parse_source_to_ast(fsys, file_path)
    IN IF parsed.fault # "" THEN Pass(parsed.fault, << >>, << >>, << >>, << >>)
       ELSE LET metrics == FileMetrics(parsed.tree, parsed.source, order)
                appended == Pass("", <<FileStat(file_path, metrics)>>,
                                 <<FileSummary(file_path, metrics)>>, << >>, << >>)
            IN IF Content(fsys[file_path].content).fault = "RecursionError"
               THEN [appended EXCEPT !.raised = "RecursionError"]
               ELSE FuncLoop(file_path, parsed.tree, ListFunctions(parsed.tree),
                             thr, appended)

\* the orders in which collect_file_metrics may iterate the file's store_names
BodyOrders(fsys, file_path) ==
    LET parsed == parse_source_to_ast(fsys, file_path)
    IN IF parsed.fault # "" THEN {<< >>} ELSE Orders(StoreNames(parsed.tree))

At(step, i) == [at |-> step, i |-> i]

\* collect_python_files: one pass of its loop in which get_python_files
\* returns
CollectPath ==
    /\ pc.at = "collect" /\ pc.i <= Len(paths)
    /\ LET found == get_python_files(fs, paths[pc.i], ignore,
                                      Walk(fs, listing, paths[pc.i]))
       IN /\ found.raised = ""
          /\ all_files' = all_files \o found.files
    /\ pc' = At("collect", pc.i + 1)
    /\ UNCHANGED <<fs, paths, ignore, threshold, func_results, file_summaries,
                   stderr, stdout, exit_code, listing, json_path, exports,
                   statVars, outsideCli>>

\* collect_python_files: get_python_files raises, the error is reported and
\* the invocation exits with code 1
ErrorAccessing ==
    /\ pc.at = "collect" /\ pc.i <= Len(paths)
    /\ LET found == get_python_files(fs, paths[pc.i], ignore,
                                      Walk(fs, listing, paths[pc.i]))
       IN /\ found.raised # ""
          /\ stderr' = Append(stderr, [msg |-> "Error accessing",
                                       path |-> paths[pc.i],
                                       e |-> found.raised])
    /\ exit_code' = Some(1)
    /\ pc' = At("exit", 0)
    /\ UNCHANGED <<fs, paths, ignore, threshold, all_files, func_results,
                   file_summaries, stdout, listing, json_path, exports,
                   statVars, outsideCli>>

\* collect_python_files: the loop is over and all_files is empty
NoFilesAfterIgnore ==
    /\ pc.at = "collect" /\ pc.i > Len(paths)
    /\ all_files = << >>
    /\ stderr' = Append(stderr, [msg |-> "No Python files found after applying ignore filters.",
                                 path |-> << >>, e |-> ""])
    /\ exit_code' = Some(1)
    /\ pc' = At("exit", 0)
    /\ UNCHANGED <<fs, paths, ignore, threshold, all_files, func_results,
                   file_summaries, stdout, listing, json_path, exports,
                   statVars, outsideCli>>

\* collect_python_files returns all_files; generate_results starts with its
\* four lists empty
ReturnAllFiles ==
    /\ pc.at = "collect" /\ pc.i > Len(paths)
    /\ all_files # << >>
    /\ func_results' = << >>
    /\ file_summaries' = << >>
    /\ func_stats' = << >>
    /\ file_stats' = << >>
    /\ pc' = At("generate", 1)
    /\ UNCHANGED <<fs, paths, ignore, threshold, all_files, stderr, stdout,
                   exit_code, listing, json_path, exports, outsideCli>>

\* one pass of the loop of generate_results that ends as the given pass does
LoopPass(body, next) ==
    /\ func_results' = func_results \o body.func_results
    /\ file_summaries' = file_summaries \o body.file_summaries
    /\ func_stats' = func_stats \o body.func_stats
    /\ file_stats' = file_stats \o body.file_stats
    /\ pc' = At("generate", next)
    /\ UNCHANGED <<fs, paths, ignore, threshold, all_files, stdout, exit_code,
                   listing, json_path, exports, outsideCli>>

\* generate_results: the body runs to its end for the file
AnalyseFile ==
    /\ pc.at = "generate" /\ pc.i <= Len(all_files)
    /\ \E order \in BodyOrders(fs, all_files[pc.i]) :
          LET body == FileBody(fs, all_files[pc.i], threshold, order)
          IN /\ body.raised = ""
             /\ LoopPass(body, pc.i + 1)
    /\ UNCHANGED stderr

SkipParseErrorAborts ==
    /\ pc.at = "generate" /\ pc.i <= Len(all_files)
    /\ \E order \in BodyOrders(fs, all_files[pc.i]) :
          LET body == FileBody(fs, all_files[pc.i], threshold, order)
          IN /\ body.raised \in {"SyntaxError", "UnicodeDecodeError"}
             /\ LoopPass(body, Len(all_files) + 1)
             /\ stderr' = Append(stderr, [msg |-> "Skipping",
                                          path |-> all_files[pc.i],
                                          e |-> body.raised])

\* generate_results: except (SyntaxError, UnicodeDecodeError)
SkipParseError ==
    /\ pc.at = "generate" /\ pc.i <= Len(all_files)
    /\ \E order \in BodyOrders(fs, all_files[pc.i]) :
          LET body == FileBody(fs, all_files[pc.i], threshold, order)
          IN /\ body.raised \in {"SyntaxError", "UnicodeDecodeError"}
             /\ LoopPass(body, pc.i + 1)
             /\ stderr' = Append(stderr, [msg |-> "Skipping",
                                          path |-> all_files[pc.i],
                                          e |-> body.raised])

\* generate_results: except Exception
ErrorProcessing ==
    /\ pc.at = "generate" /\ pc.i <= Len(all_files)
    /\ \E order \in BodyOrders(fs, all_files[pc.i]) :
          LET body == FileBody(fs, all_files[pc.i], threshold, order)
          IN /\ body.raised \notin {"", "SyntaxError", "UnicodeDecodeError"}
             /\ LoopPass(body, pc.i + 1)
             /\ stderr' = Append(stderr, [msg |-> "Error processing",
                                          path |-> all_files[pc.i],
                                          e |-> body.raised])

Line(text) == [text |-> text]

\* the lines output_results builds
ResultLines(fres, fsums) ==
    <<Line("=== Function-level Results (filtered by CC threshold) ===")>>
    \o (IF fres # << >> THEN fres ELSE <<Line("(No functions exceeded threshold)")>>)
    \o <<Line(""), Line("=== File-level Quality Summaries ===")>>
    \o (IF fsums # << >> THEN fsums ELSE <<Line("(No files analyzed)")>>)

\* generate_results returns and output_results echoes the lines; without
\* --json analyze returns: exit code 0
OutputResults ==
    /\ pc.at = "generate" /\ pc.i > Len(all_files)
    /\ stdout' = ResultLines(func_results, file_summaries)
    /\ IF json_path = None
       THEN exit_code' = Some(0) /\ pc' = At("exit", 0)
       ELSE exit_code' = exit_code /\ pc' = At("json", 0)
    /\ UNCHANGED <<fs, paths, ignore, threshold, all_files, func_results,
                   file_summaries, stderr, listing, json_path, exports,
                   statVars, outsideCli>>

analyze ==
    \/ CollectPath
    \/ ErrorAccessing
    \/ NoFilesAfterIgnore
    \/ ReturnAllFiles
    \/ AnalyseFile
    \/ SkipParseError
    \/ ErrorProcessing
    \/ OutputResults

\* The file systems and command lines explored: a directory d that may hold
\* d/a.py (a file, or a directory of that name), d/b.py and d/n.md.
P_d == <<"d">>
P_a == <<"d", "/", "a", ".", "p", "y">>
P_b == <<"d", "/", "b", ".", "p", "y">>
P_n == <<"d", "/", "n", ".", "m", "d">>
P_missing == <<"z">>

Absent == << >>
Entry(p, entries) == {Absent} \cup {p :> e : e \in entries}

FileSystems ==
    {(P_d :> Dir) @@ a @@ b @@ n :
        a \in Entry(P_a, {Dir} \cup {File(c) : c \in {"one", "empty", "deep", "syntax", "binary"}}),
        b \in Entry(P_b, {File(c) : c \in {"two", "syntax"}}),
        n \in Entry(P_n, {File("one")})}

PathArgs == {P_d, P_a, P_n, P_missing}

IgnoreArgs == {<< >>, << <<"a">> >>, << DotPy >>}

CliStart ==
    /\ fs \in FileSystems
    /\ listing \in Orders({q \in DOMAIN fs : EndsWith(PathName(q), DotPy)})
    /\ exports = << >>
    /\ \E k \in 1..MaxPaths : paths \in [1..k -> PathArgs]
    /\ ignore \in IgnoreArgs
    /\ threshold \in {1, 3}
    /\ pc = At("collect", 1)
    /\ all_files = << >>
    /\ func_results = << >>
    /\ file_summaries = << >>
    /\ stderr = << >>
    /\ stdout = << >>
    /\ exit_code = None
    /\ tree = << >>
    /\ source = << >>
    /\ IdleExtract /\ IdleMetrics /\ IdleFile /\ IdleStats /\ IdleReport

\* the parser of the interpreter gives every node both of its positions
InitCli == CliStart /\ has_pos = TRUE /\ json_path = None

SpecCli == InitCli /\ [][analyze]_vars

----------------------------------------------------------------------------
(***************************************************************************)
(* C4: when generate_results processes a list of N files of which M fail   *)
(* to parse (SyntaxError or UnicodeDecodeError), wherever they stand in    *)
(* the list, the run is not aborted; the file records cover exactly the    *)
(* N-M parseable files, in order; no function record belongs to a failed   *)
(* file; exactly M skip messages are reported; and the records of each     *)
(* parseable file are what the file yields on its own.  Stated over every  *)
(* prefix of the list the loop has got through.                            *)
(***************************************************************************)
Parseable(p) == is_file(fs, p) /\ Content(fs[p].content).fault = ""
ParseFails(p) ==
    is_file(fs, p) /\ Content(fs[p].content).fault \in {"SyntaxError", "UnicodeDecodeError"}

\* the files generate_results has got through
Processed ==
    IF pc.at = "generate" THEN SubSeq(all_files, 1, pc.i - 1)
    ELSE IF pc.at = "exit" /\ exit_code = Some(0) THEN all_files
    ELSE << >>

RECURSIVE Flatten(_)
Flatten(seqs) == IF seqs = << >> THEN << >> ELSE Head(seqs) \o Flatten(Tail(seqs))

\* the function nodes of a tree in source order
FunctionNodes(t) == SelectSeq([n \in 1..Len(t) |-> n], LAMBDA n : t[n].kind \in FunctionKinds)

\* the records a parseable file yields on its own
C4_FileStats(p) ==
    LET c == Content(fs[p].content)
    IN {FileStat(p, FileMetrics(c.tree, c.source, o)) : o \in Orders(StoreNames(c.tree))}

C4_FileSummaries(p) ==
    LET c == Content(fs[p].content)
    IN {FileSummary(p, FileMetrics(c.tree, c.source, o)) : o \in Orders(StoreNames(c.tree))}

C4_FuncStats(p) ==
    LET t == Content(fs[p].content).tree
        nodes == FunctionNodes(t)
    IN [k \in 1..Len(nodes) |->
          FuncStat(p, QualifiedName(t, nodes[k]), t, nodes[k], FuncMetrics(t, nodes[k], TRUE))]

C4_FuncResults(p) ==
    LET t == Content(fs[p].content).tree
        over == SelectSeq(FunctionNodes(t), LAMBDA n : calc_cc(t, n) >= threshold)
    IN [k \in 1..Len(over) |->
          FuncResult(p, QualifiedName(t, over[k]), FuncMetrics(t, over[k], TRUE))]

C4_ParseFailuresIsolated ==
    (/\ pc.at = "generate" \/ (pc.at = "exit" /\ exit_code = Some(0))
     /\ \A k \in 1..Len(Processed) : Parseable(Processed[k]) \/ ParseFails(Processed[k])) =>
        LET ok == SelectSeq(Processed, Parseable)
            failed == {k \in 1..Len(Processed) : ParseFails(Processed[k])}
        IN /\ pc.at = "generate" => exit_code = None
           /\ Len(file_stats) = Len(ok)
           /\ Len(file_summaries) = Len(ok)
           /\ \A j \in 1..Len(ok) :
                 /\ file_stats[j] \in C4_FileStats(ok[j])
                 /\ file_summaries[j] \in C4_FileSummaries(ok[j])
           /\ func_stats = Flatten([j \in 1..Len(ok) |-> C4_FuncStats(ok[j])])
           /\ func_results = Flatten([j \in 1..Len(ok) |-> C4_FuncResults(ok[j])])
           /\ \A j \in 1..Len(func_stats) : ~ParseFails(func_stats[j].file)
           /\ Cardinality({k \in 1..Len(stderr) : stderr[k].msg = "Skipping"})
                 = Cardinality(failed)
           /\ \A k \in 1..Len(stderr) : stderr[k].msg = "Skipping"

\* a run over three files, the first and the last of which fail to parse,
\* that ends with the records of the one in the middle
C4_Witness ==
    /\ pc.at = "exit" /\ exit_code = Some(0)
    /\ Len(all_files) = 3
    /\ ParseFails(all_files[1])
    /\ Parseable(all_files[2])
    /\ ParseFails(all_files[3])
    /\ Len(file_stats) = 1
    /\ Len(func_stats) = 2
    /\ Len(stderr) = 2

(***************************************************************************)
(* C5: scanning a directory that contains no matching source file (after   *)
(* the ignore filter) raises FileNotFoundError from get_python_files, and  *)
(* the invocation ends with a non-zero exit code without analysing any     *)
(* file.                                                                   *)
(***************************************************************************)
\* the directory holds, at any depth, no regular file named *.py that the
\* ignore filter lets through
NoMatchingSourceFile(p) ==
    /\ is_dir(fs, p)
    /\ ~\E q \in DOMAIN fs :
          /\ is_file(fs, q)
          /\ IsPrefix(p \o <<"/">>, q)
          /\ EndsWith(PathName(q), DotPy)
          /\ ~_skip(q, ignore)

NothingAnalysed ==
    /\ pc.at # "generate"
    /\ file_stats = << >> /\ func_stats = << >>
    /\ file_summaries = << >> /\ func_results = << >>
    /\ stdout = << >>
    /\ \A k \in 1..Len(stderr) : stderr[k].msg \notin {"Skipping", "Error processing"}

C5_NoMatchRaisesAndExits ==
    \A k \in 1..Len(paths) :
        NoMatchingSourceFile(paths[k]) =>
            /\ pc.at = "collect" => pc.i <= k
            /\ NothingAnalysed
            /\ pc.at = "exit" =>
                  /\ exit_code = Some(1)
                  /\ stderr[Len(stderr)].msg = "Error accessing"
                  /\ stderr[Len(stderr)].e = "FileNotFoundError"

----------------------------------------------------------------------------
(***************************************************************************)
(* The report generator (report_generator.py) and the distribution charts  *)
(* (visualizer.py), over the function and file records of a run.           *)
(***************************************************************************)
CC_HIGH == 10
CC_MED == 7
LEN_HIGH == 60
LEN_MED == 40
NEST_HIGH == 5
NEST_MED == 3
\* The four ratio thresholds are decimal literals; a ratio n/d is compared
\* with them exactly, which is what the comparison of the two floats gives
\* for every d a file can reach.
DOC_LOW == [num |-> 3, den |-> 10]
COMMENT_LOW == [num |-> 1, den |-> 50]
LONG_LINE_HIGH == [num |-> 1, den |-> 10]
NAMING_HIGH == [num |-> 1, den |-> 10]

Less(a, b) == a.num * b.den < b.num * a.den
Plus(a, b) == Div(a.num * b.den + b.num * a.den, a.den * b.den)

\* round(x, ndigits), as a count of 10^-ndigits (scale = 10^ndigits): the
\* nearest one, the even one of two equally near
RoundTo(r, scale) ==
    LET q == (r.num * scale) \div r.den
        twice == 2 * ((r.num * scale) % r.den)
    IN IF twice > r.den \/ (twice = r.den /\ q % 2 = 1) THEN q + 1 ELSE q

_cc_bucketExclusive(cc) ==
    IF cc < 3 THEN "1-3"
    ELSE IF cc <= 6 THEN "4-6"
    ELSE IF cc <= 10 THEN "7-10"
    ELSE "11+"

_cc_bucket(cc) ==
    IF cc <= 3 THEN "1-3"
    ELSE IF cc <= 6 THEN "4-6"
    ELSE IF cc <= 10 THEN "7-10"
    ELSE "11+"

_len_bucket(ln) ==
    IF ln <= 20 THEN "1-20"
    ELSE IF ln <= 40 THEN "21-40"
    ELSE IF ln <= 60 THEN "41-60"
    ELSE "61+"

\* _file_anchor: backslash, slash and dot become "_", colons are dropped
RECURSIVE Safe(_)
Safe(file_path) ==
    IF file_path = << >> THEN << >>
    ELSE LET c == Head(file_path)
         IN (IF c \in {"\\", "/", "."} THEN <<"_">>
             ELSE IF c = ":" THEN << >>
             ELSE <<c>>) \o Safe(Tail(file_path))

_file_anchor(file_path) == <<"f", "i", "l", "e", "_">> \o Safe(file_path)

\* ", ".join(reasons) or default
RECURSIVE JoinComma(_)
JoinComma(reasons) ==
    IF reasons = << >> THEN ""
    ELSE IF Len(reasons) = 1 THEN reasons[1]
    ELSE reasons[1] \o ", " \o JoinComma(Tail(reasons))

OrDefault(text, default) == IF text = "" THEN default ELSE text

\* the score and the reasons one metric adds in risk_level
RiskStepStrict(acc, v, high, med, label_high, label_med) ==
    IF v > high THEN [score |-> acc.score + 2, reasons |-> Append(acc.reasons, label_high)]
    ELSE IF v > med THEN [score |-> acc.score + 1, reasons |-> Append(acc.reasons, label_med)]
    ELSE acc

RiskStep(acc, v, high, med, label_high, label_med) ==
    IF v >= high THEN [score |-> acc.score + 2, reasons |-> Append(acc.reasons, label_high)]
    ELSE IF v >= med THEN [score |-> acc.score + 1, reasons |-> Append(acc.reasons, label_med)]
    ELSE acc

\* risk_level(cc, length, nest); ">=" stands for the sign the labels print,
\* and the three defaults are given in English
risk_level(cc, length, nest) ==
    LET s0 == [score |-> 0, reasons |-> << >>]
        s1 == RiskStep(s0, cc, CC_HIGH, CC_MED, "CC>=10", "CC>=7")
        s2 == RiskStep(s1, length, LEN_HIGH, LEN_MED, "LEN>=60", "LEN>=40")
        s3 == RiskStep(s2, nest, NEST_HIGH, NEST_MED, "NEST>=5", "NEST>=3")
    IN IF s3.score >= 4 THEN <<"high", OrDefault(JoinComma(s3.reasons), "overall high")>>
       ELSE IF s3.score >= 2 THEN <<"medium", OrDefault(JoinComma(s3.reasons), "medium risk")>>
       ELSE <<"low", OrDefault(JoinComma(s3.reasons), "low risk")>>

RECURSIVE SumSeq(_)
SumSeq(xs) == IF xs = << >> THEN 0 ELSE Head(xs) + SumSeq(Tail(xs))

RECURSIVE MaxSeq(_)
MaxSeq(xs) == IF Len(xs) = 1 THEN xs[1] ELSE Max(Head(xs), MaxSeq(Tail(xs)))

\* for x in xs: dist[bucket(x)] += 1, over the buckets the values fall in
RECURSIVE Tally(_, _)
Tally(labels, dist) ==
    IF labels = << >> THEN dist
    ELSE Tally(Tail(labels), [dist EXCEPT ![Head(labels)] = @ + 1])

RECURSIVE SumRatios(_)
SumRatios(rs) == IF rs = << >> THEN Zero ELSE Plus(Head(rs), SumRatios(Tail(rs)))

\* round(sum(fs.get(k, 0) for fs in file_stats) / len(file_stats), 3)
MetricAvg(values) ==
    LET total == SumRatios(values)
    IN RoundTo(Div(total.num, total.den * Len(values)), 1000)

\* build_summary(func_stats, file_stats); the averages are counts of
\* hundredths (functions) and of thousandths (files)
build_summary(fstats, flstats) ==
    LET ccs == [i \in 1..Len(fstats) |-> fstats[i].cc]
        lens == [i \in 1..Len(fstats) |-> fstats[i].length]
        avg(k(_)) == IF flstats = << >> THEN 0
                     ELSE MetricAvg([i \in 1..Len(flstats) |-> k(flstats[i])])
    IN [num_files |-> Len(flstats),
        num_functions |-> Len(fstats),
        cc_avg |-> IF ccs # << >> THEN RoundTo(Div(SumSeq(ccs), Len(ccs)), 100) ELSE 0,
        cc_max |-> IF ccs # << >> THEN MaxSeq(ccs) ELSE 0,
        len_avg |-> IF lens # << >> THEN RoundTo(Div(SumSeq(lens), Len(lens)), 100) ELSE 0,
        len_max |-> IF lens # << >> THEN MaxSeq(lens) ELSE 0,
        cc_dist |-> Tally([i \in 1..Len(ccs) |-> _cc_bucket(ccs[i])],
                          [b \in {"1-3", "4-6", "7-10", "11+"} |-> 0]),
        len_dist |-> Tally([i \in 1..Len(lens) |-> _len_bucket(lens[i])],
                           [b \in {"1-20", "21-40", "41-60", "61+"} |-> 0]),
        file_metric_avg |->
            [comment_ratio |-> avg(LAMBDA f : f.comment_ratio),
             docstring_coverage |-> avg(LAMBDA f : f.docstring_coverage),
             long_line_ratio |-> avg(LAMBDA f : f.long_line_ratio),
             naming_issue_ratio |-> avg(LAMBDA f : f.naming_issue_ratio),
             unused_imports_count |-> avg(LAMBDA f : [num |-> f.unused_imports_count, den |-> 1])]]

\* A smell.  The type is the English of the label the program prints; the
\* detail is the label and the value it prints after "=".
Smell(type, level, target, file, name, key, value) ==
    [type |-> type, level |-> level, target |-> target, file |-> file,
     name |-> name, detail |-> <<key, value>>]

\* one if / elif pair of the function loop of detect_smells
MetricSmellBoth(f, key, v, high, med, type_high, type_med) ==
    (IF v >= high
     THEN <<Smell(type_high, "high", "function", f.file, f.name, key, v)>>
     ELSE << >>)
    \o (IF v >= med
        THEN <<Smell(type_med, "medium", "function", f.file, f.name, key, v)>>
        ELSE << >>)

MetricSmell(f, key, v, high, med, type_high, type_med) ==
    IF v >= high
    THEN <<Smell(type_high, "high", "function", f.file, f.name, key, v)>>
    ELSE IF v >= med
    THEN <<Smell(type_med, "medium", "function", f.file, f.name, key, v)>>
    ELSE << >>

\* the body of the function loop of detect_smells
FuncSmells(f) ==
    MetricSmell(f, "CC", f.cc, CC_HIGH, CC_MED,
                "high complexity function", "medium-high complexity function")
    \o MetricSmell(f, "LEN", f.length, LEN_HIGH, LEN_MED,
                   "overlong function", "long function")
    \o MetricSmell(f, "NEST", f.nest, NEST_HIGH, NEST_MED,
                   "deeply nested function", "rather deeply nested function")

FileSmell(cond, type, file, key, value) ==
    IF cond THEN <<Smell(type, "medium", "file", file, << >>, key, value)>> ELSE << >>

\* the body of the file loop of detect_smells
FileSmells(f) ==
    FileSmell(Less(f.docstring_coverage, DOC_LOW), "low docstring coverage",
              f.file, "DOC", Fmt2(f.docstring_coverage))
    \o FileSmell(Less(f.comment_ratio, COMMENT_LOW), "low comment ratio",
                 f.file, "COMMENT", Fmt2(f.comment_ratio))
    \o FileSmell(Less(LONG_LINE_HIGH, f.long_line_ratio), "high long-line ratio",
                 f.file, "LONG_LINE", Fmt2(f.long_line_ratio))
    \o FileSmell(Less(NAMING_HIGH, f.naming_issue_ratio), "many naming issues",
                 f.file, "NAMING", Fmt2(f.naming_issue_ratio))
    \o FileSmell(f.unused_imports_count > 0, "unused imports",
                 f.file, "unused", f.unused_imports)

RECURSIVE FuncSmellLoop(_)
FuncSmellLoop(fstats) ==
    IF fstats = << >> THEN << >>
    ELSE FuncSmells(Head(fstats)) \o FuncSmellLoop(Tail(fstats))

RECURSIVE FileSmellLoop(_)
FileSmellLoop(flstats) ==
    IF flstats = << >> THEN << >>
    ELSE FileSmells(Head(flstats)) \o FileSmellLoop(Tail(flstats))

detect_smells(fstats, flstats) == FuncSmellLoop(fstats) \o FileSmellLoop(flstats)

\* The dict files of build_file_risk_ranking: its values in insertion order.
IndexOfFile(files, file) ==
    IF \E i \in 1..Len(files) : files[i].file = file
    THEN CHOOSE i \in 1..Len(files) : files[i].file = file
    ELSE 0

BlankFile(file) ==
    [file |-> file, func_count |-> 0, cc_sum |-> 0, cc_max |-> 0, len_sum |-> 0,
     len_max |-> 0, nest_sum |-> 0, nest_max |-> 0, high_smells |-> 0,
     med_smells |-> 0]

SetDefault(files, file) ==
    IF IndexOfFile(files, file) = 0 THEN Append(files, BlankFile(file)) ELSE files

\* for f in func_stats: ...
RECURSIVE RankFuncLoop(_, _)
RankFuncLoop(fstats, files) ==
    IF fstats = << >> THEN files
    ELSE LET f == Head(fstats)
             held == SetDefault(files, f.file)
             i == IndexOfFile(held, f.file)
         IN RankFuncLoop(Tail(fstats),
                [held EXCEPT ![i].func_count = @ + 1,
                             ![i].cc_sum = @ + f.cc,
                             ![i].cc_max = Max(@, f.cc),
                             ![i].len_sum = @ + f.length,
                             ![i].len_max = Max(@, f.length),
                             ![i].nest_sum = @ + f.nest,
                             ![i].nest_max = Max(@, f.nest)])

RECURSIVE RankSmellLoopKnownFiles(_, _)
RankSmellLoopKnownFiles(smls, files) ==
    IF smls = << >> THEN files
    ELSE LET sm == Head(smls)
             i == IndexOfFile(files, sm.file)
         IN RankSmellLoopKnownFiles(Tail(smls),
                IF i = 0 THEN files
                ELSE IF sm.level = "high"
                THEN [files EXCEPT ![i].high_smells = @ + 1]
                ELSE [files EXCEPT ![i].med_smells = @ + 1])

\* for s in smells: ...
RECURSIVE RankSmellLoop(_, _)
RankSmellLoop(smls, files) ==
    IF smls = << >> THEN files
    ELSE LET sm == Head(smls)
             held == SetDefault(files, sm.file)
             i == IndexOfFile(held, sm.file)
         IN RankSmellLoop(Tail(smls),
                IF sm.level = "high"
                THEN [held EXCEPT ![i].high_smells = @ + 1]
                ELSE [held EXCEPT ![i].med_smells = @ + 1])

\* the entry appended to ranking for one file
RankEntry(d) ==
    LET fc == IF d.func_count # 0 THEN d.func_count ELSE 1
    IN [file |-> d.file,
        anchor |-> _file_anchor(d.file),
        func_count |-> d.func_count,
        high_smells |-> d.high_smells,
        med_smells |-> d.med_smells,
        cc_avg |-> RoundTo(Div(d.cc_sum, fc), 100),
        cc_max |-> d.cc_max,
        len_avg |-> RoundTo(Div(d.len_sum, fc), 100),
        len_max |-> d.len_max,
        nest_avg |-> RoundTo(Div(d.nest_sum, fc), 100),
        nest_max |-> d.nest_max]

\* tuples compare element by element
RECURSIVE TupleLess(_, _)
TupleLess(a, b) ==
    IF a = << >> \/ b = << >> THEN a = << >> /\ b # << >>
    ELSE IF Head(a) # Head(b) THEN Head(a) < Head(b)
    ELSE TupleLess(Tail(a), Tail(b))

RankKeyNoLength(x) == <<x.high_smells, x.med_smells, x.cc_max>>

\* key=lambda x: (x["high_smells"], x["med_smells"], x["cc_max"], x["len_max"])
RankKey(x) == <<x.high_smells, x.med_smells, x.cc_max, x.len_max>>

\* list.sort(key=..., reverse=True) over (key, element) pairs: a stable
\* sort, so an element goes behind every element whose key is not smaller
\* than its own
RECURSIVE InsertDescending(_, _)
InsertDescending(sorted, x) ==
    IF sorted = << >> THEN <<x>>
    ELSE IF TupleLess(Head(sorted)[1], x[1]) THEN <<x>> \o sorted
    ELSE <<Head(sorted)>> \o InsertDescending(Tail(sorted), x)

RECURSIVE SortLoop(_, _)
SortLoop(todo, sorted) ==
    IF todo = << >> THEN sorted
    ELSE SortLoop(Tail(todo), InsertDescending(sorted, Head(todo)))

SortDescending(keyed) ==
    LET sorted == SortLoop(keyed, << >>)
    IN [i \in 1..Len(sorted) |-> sorted[i][2]]

build_file_risk_ranking(fstats, smls) ==
    LET files == RankSmellLoop(smls, RankFuncLoop(fstats, << >>))
        ranking == [i \in 1..Len(files) |-> RankEntry(files[i])]
    IN SortDescending([i \in 1..Len(ranking) |-> <<RankKey(ranking[i]), ranking[i]>>])

\* the bar of plot_cc_distribution a value is counted in (0 to 3)
CcBar(cc) ==
    IF cc <= 3 THEN 0
    ELSE IF cc <= 6 THEN 1
    ELSE IF cc <= 10 THEN 2
    ELSE 3

\* the bar of plot_len_distribution a value is counted in (0 to 3)
LenBar(ln) ==
    IF ln <= 20 THEN 0
    ELSE IF ln <= 40 THEN 1
    ELSE IF ln <= 60 THEN 2
    ELSE 3

cc_bins == <<"1-3", "4-6", "7-10", "11+">>
len_bins == <<"1-20", "21-40", "41-60", "61+">>

\* for x in xs: counts[bar] += 1
RECURSIVE CountLoop(_, _)
CountLoop(bars, counts) ==
    IF bars = << >> THEN counts
    ELSE CountLoop(Tail(bars), [counts EXCEPT ![Head(bars) + 1] = @ + 1])

\* the bars plot_cc_distribution and plot_len_distribution draw
plot_cc_distribution(fstats) ==
    CountLoop([i \in 1..Len(fstats) |-> CcBar(fstats[i].cc)], <<0, 0, 0, 0>>)

plot_len_distribution(fstats) ==
    CountLoop([i \in 1..Len(fstats) |-> LenBar(fstats[i].length)], <<0, 0, 0, 0>>)

\* agg.setdefault(file, {...}) and the update of the file's sums and maxima
HeatBlank(file) ==
    [file |-> file, cc_sum |-> 0, cc_max |-> 0, len_sum |-> 0, len_max |-> 0,
     nest_sum |-> 0, nest_max |-> 0, cnt |-> 0]

\* plot_file_heatmap: for f in func_stats: ...
RECURSIVE HeatAggLoop(_, _)
HeatAggLoop(fstats, agg) ==
    IF fstats = << >> THEN agg
    ELSE LET f == Head(fstats)
             held == IF IndexOfFile(agg, f.file) = 0
                     THEN Append(agg, HeatBlank(f.file)) ELSE agg
             i == IndexOfFile(held, f.file)
         IN HeatAggLoop(Tail(fstats),
                [held EXCEPT ![i].cnt = @ + 1,
                             ![i].cc_sum = @ + f.cc,
                             ![i].cc_max = Max(@, f.cc),
                             ![i].len_sum = @ + f.length,
                             ![i].len_max = Max(@, f.length),
                             ![i].nest_sum = @ + f.nest,
                             ![i].nest_max = Max(@, f.nest)])

\* plot_file_heatmap: the (file, row) pair appended for one file record;
\* the columns CC_avg, CC_max, LEN_avg, LEN_max, NEST_avg, COMMENT, DOC are
\* row[1] to row[7]
HeatRow(agg, frec) ==
    LET i == IndexOfFile(agg, frec.file)
        a == IF i # 0 THEN agg[i] ELSE [HeatBlank(frec.file) EXCEPT !.cnt = 1]
        cnt == Max(a.cnt, 1)
    IN <<frec.file,
         <<Div(a.cc_sum, cnt), a.cc_max, Div(a.len_sum, cnt), a.len_max,
           Div(a.nest_sum, cnt), frec.comment_ratio, frec.docstring_coverage>>>>

\* key=lambda x: (x[1][1] + x[1][3] + x[1][4])
HeatKey(x) == Plus(Div(x[2][2] + x[2][4], 1), x[2][5])

\* rows.sort(key=..., reverse=True): stable, a row goes behind every row
\* whose key is not smaller than its own
RECURSIVE HeatInsert(_, _)
HeatInsert(sorted, x) ==
    IF sorted = << >> THEN <<x>>
    ELSE IF Less(HeatKey(Head(sorted)), HeatKey(x)) THEN <<x>> \o sorted
    ELSE <<Head(sorted)>> \o HeatInsert(Tail(sorted), x)

RECURSIVE HeatSort(_, _)
HeatSort(todo, sorted) ==
    IF todo = << >> THEN sorted
    ELSE HeatSort(Tail(todo), HeatInsert(sorted, Head(todo)))

\* top_k: int = 12
top_k == 12

\* plot_file_heatmap, up to the rows the figure is drawn from
plot_file_heatmap(fstats, flstats, k) ==
    LET agg == HeatAggLoop(fstats, << >>)
        rows == HeatSort([i \in 1..Len(flstats) |-> HeatRow(agg, flstats[i])], << >>)
    IN SubSeq(rows, 1, IF Len(rows) < k THEN Len(rows) ELSE k)

\* --top
top_n == 10

\* sorted(func_stats, key=lambda x: (x["cc"], x["length"]), reverse=True)[:top_n]
top_funcs(fstats) ==
    LET sorted == SortDescending([i \in 1..Len(fstats) |->
                                    <<<<fstats[i].cc, fstats[i].length>>, fstats[i]>>])
    IN SubSeq(sorted, 1, IF Len(sorted) < top_n THEN Len(sorted) ELSE top_n)

PlotCcDistribution ==
    /\ report_pc = "plot_cc"
    /\ cc_counts' = plot_cc_distribution(func_stats)
    /\ report_pc' = "plot_len"
    /\ UNCHANGED <<len_counts, heat_rows, summary, smells, file_ranking, top_rows,
                   outsideReport>>

PlotLenDistribution ==
    /\ report_pc = "plot_len"
    /\ len_counts' = plot_len_distribution(func_stats)
    /\ report_pc' = "heatmap"
    /\ UNCHANGED <<cc_counts, heat_rows, summary, smells, file_ranking, top_rows,
                   outsideReport>>

\* plot_file_heatmap(func_stats, file_stats, out_dir), with its default top_k
PlotFileHeatmap ==
    /\ report_pc = "heatmap"
    /\ heat_rows' = plot_file_heatmap(func_stats, file_stats, top_k)
    /\ report_pc' = "html"
    /\ UNCHANGED <<cc_counts, len_counts, summary, smells, file_ranking, top_rows,
                   outsideReport>>

\* generate_html_report, up to the values the page is rendered from
GenerateHtmlReport ==
    /\ report_pc = "html"
    /\ summary' = build_summary(func_stats, file_stats)
    /\ smells' = detect_smells(func_stats, file_stats)
    /\ file_ranking' = build_file_risk_ranking(func_stats, detect_smells(func_stats, file_stats))
    /\ top_rows' = LET top == top_funcs(func_stats)
                   IN [i \in 1..Len(top) |->
                         [f |-> top[i],
                          level_reason |-> risk_level(top[i].cc, top[i].length, top[i].nest)]]
    /\ report_pc' = "done"
    /\ UNCHANGED <<cc_counts, len_counts, heat_rows, outsideReport>>

NextReport ==
    \/ PlotCcDistribution
    \/ PlotLenDistribution
    \/ PlotFileHeatmap
    \/ GenerateHtmlReport

\* The records explored.  One function record with each metric at, beside
\* and between its thresholds and bucket edges; one file record with each
\* ratio below, at and above its threshold; and up to MaxFuncs function
\* records spread over three files.
MaxFuncs == 3

F_a == <<"a", ".", "p", "y">>
F_b == <<"b">>
F_c == <<"c">>

CcValues == {1, 3, 4, 6, 7, 9, 10, 11}
LenValues == {0, 1, 20, 21, 39, 40, 41, 59, 60, 61}
NestValues == {0, 2, 3, 4, 5}

FuncRecord(file, cc, ln, nest) ==
    [file |-> file, name |-> <<"f">>, cc |-> cc, length |-> ln, nest |-> nest,
     lineno |-> 1]

FileRecord(file, comment, doc, long, naming, unused) ==
    [file |-> file, comment_ratio |-> comment, docstring_coverage |-> doc,
     long_line_ratio |-> long, naming_issue_ratio |-> naming,
     unused_imports_count |-> Len(unused), unused_imports |-> unused]

Half == [num |-> 1, den |-> 2]
One == [num |-> 1, den |-> 1]

WideFuncStats == {<<FuncRecord(F_a, cc, ln, nest)>> :
                     cc \in CcValues, ln \in LenValues, nest \in NestValues}

WideFileStats ==
    {<< >>} \cup
    {<<FileRecord(F_a, comment, doc, long, naming, unused)>> :
        comment \in {Zero, COMMENT_LOW, Half},
        doc \in {Zero, DOC_LOW, One},
        long \in {Zero, LONG_LINE_HIGH, Half},
        naming \in {Zero, NAMING_HIGH, Half},
        unused \in {<< >>, << <<"o", "s">> >>}}

ManyFuncRecords == {FuncRecord(file, cc, ln, 0) :
                       file \in {F_a, F_b, F_c}, cc \in {1, CC_HIGH}, ln \in {1, LEN_HIGH}}

ManyFileStats ==
    {<< >>, <<FileRecord(F_c, Half, Zero, Zero, Zero, << >>)>>}

InitReport ==
    /\ \/ func_stats \in WideFuncStats /\ file_stats = << >>
       \/ func_stats = << >> /\ file_stats \in WideFileStats
       \/ /\ \E k \in 1..MaxFuncs : func_stats \in [1..k -> ManyFuncRecords]
          /\ file_stats \in ManyFileStats
    /\ report_pc = "plot_cc"
    /\ cc_counts = None
    /\ len_counts = None
    /\ heat_rows = None
    /\ summary = None
    /\ smells = None
    /\ file_ranking = None
    /\ top_rows = None
    /\ tree = << >>
    /\ has_pos = TRUE
    /\ source = << >>
    /\ IdleExtract /\ IdleMetrics /\ IdleFile /\ IdleCli

SpecReport == InitReport /\ [][NextReport]_vars

----------------------------------------------------------------------------
(***************************************************************************)
(* C7: risk_level scores a triple (complexity, length, nesting) as the sum *)
(* of three independent contributions, 2 at or above the high threshold,   *)
(* else 1 at or above the medium threshold, else 0 (thresholds 10/7,       *)
(* 60/40, 5/3), and returns "high" for a score of at least 4, "medium" for *)
(* at least 2, "low" otherwise; (10, 60, 5) is high and (7, 0, 0) is low.  *)
(***************************************************************************)
C7_Contribution(v, high, med) == IF v >= high THEN 2 ELSE IF v >= med THEN 1 ELSE 0

C7_Score(cc, length, nest) ==
    C7_Contribution(cc, 10, 7) + C7_Contribution(length, 60, 40)
    + C7_Contribution(nest, 5, 3)

C7_Level(score) == IF score >= 4 THEN "high" ELSE IF score >= 2 THEN "medium" ELSE "low"

C7_RiskLevelScoring ==
    /\ top_rows # None =>
          \A i \in 1..Len(top_rows) :
              LET f == top_rows[i].f
              IN top_rows[i].level_reason[1] = C7_Level(C7_Score(f.cc, f.length, f.nest))
    /\ risk_level(10, 60, 5)[1] = "high"
    /\ risk_level(7, 0, 0)[1] = "low"

\* the report rates a function whose three metrics sit on their high
\* thresholds
C7_Witness ==
    /\ top_rows # None
    /\ \E i \in 1..Len(top_rows) :
          /\ top_rows[i].f.cc = 10 /\ top_rows[i].f.length = 60 /\ top_rows[i].f.nest = 5
          /\ top_rows[i].level_reason[1] = "high"

(***************************************************************************)
(* C8: every complexity value falls in exactly one of the buckets 1-3,     *)
(* 4-6, 7-10, 11+ and every length value in exactly one of 1-20, 21-40,    *)
(* 41-60, 61+, the upper edge of each bucket inclusive; the summary's      *)
(* distribution and the distribution charts put every value in the same    *)
(* bucket.                                                                 *)
(***************************************************************************)
C8_InBucket(v, bucket) ==
    CASE bucket \in {"1-3"} -> 1 <= v /\ v <= 3
      [] bucket \in {"4-6"} -> 4 <= v /\ v <= 6
      [] bucket \in {"7-10"} -> 7 <= v /\ v <= 10
      [] bucket \in {"11+"} -> 11 <= v
      [] bucket \in {"1-20"} -> 1 <= v /\ v <= 20
      [] bucket \in {"21-40"} -> 21 <= v /\ v <= 40
      [] bucket \in {"41-60"} -> 41 <= v /\ v <= 60
      [] bucket \in {"61+"} -> 61 <= v

C8_BucketsAgree ==
    /\ \A i \in 1..Len(func_stats) :
          LET f == func_stats[i]
          IN /\ f.cc >= 1 => \A k \in 1..4 :
                    (_cc_bucket(f.cc) = cc_bins[k]) <=> C8_InBucket(f.cc, cc_bins[k])
             /\ f.length >= 1 => \A k \in 1..4 :
                    (_len_bucket(f.length) = len_bins[k]) <=> C8_InBucket(f.length, len_bins[k])
             /\ cc_bins[CcBar(f.cc) + 1] = _cc_bucket(f.cc)
             /\ len_bins[LenBar(f.length) + 1] = _len_bucket(f.length)
    /\ report_pc = "done" =>
          \A k \in 1..4 :
              /\ summary.cc_dist[cc_bins[k]] = cc_counts[k]
              /\ summary.len_dist[len_bins[k]] = len_counts[k]
    /\ _cc_bucket(3) = "1-3" /\ _cc_bucket(4) = "4-6"
    /\ _cc_bucket(10) = "7-10" /\ _cc_bucket(11) = "11+"

\* a function on the upper edges 3 and 20, counted in the first bucket by the
\* summary and by both charts
C8_Witness ==
    /\ report_pc = "done"
    /\ Len(func_stats) = 1
    /\ func_stats[1].cc = 3 /\ func_stats[1].length = 20
    /\ summary.cc_dist["1-3"] = 1 /\ cc_counts[1] = 1
    /\ summary.len_dist["1-20"] = 1 /\ len_counts[1] = 1

(***************************************************************************)
(* C9: for every function record detect_smells emits at most one smell per *)
(* metric (complexity, length, nesting), so at most three: the high one    *)
(* alone when the metric is at or above its high threshold, a medium one   *)
(* when it is at or above the medium threshold only, none below both.      *)
(***************************************************************************)
C9_Levels(emitted, key) ==
    SelectSeq([k \in 1..Len(emitted) |-> IF emitted[k].detail[1] = key
                                         THEN emitted[k].level ELSE ""],
              LAMBDA l : l # "")

C9_Expected(v, high, med) ==
    IF v >= high THEN <<"high">> ELSE IF v >= med THEN <<"medium">> ELSE << >>

C9_OneSmellPerMetric ==
    smells # None =>
        /\ \A i \in 1..Len(func_stats) :
              LET f == func_stats[i]
                  emitted == detect_smells(<<f>>, << >>)
              IN /\ Len(emitted) <= 3
                 /\ \A k \in 1..Len(emitted) :
                       /\ emitted[k].target = "function"
                       /\ emitted[k].file = f.file /\ emitted[k].name = f.name
                 /\ C9_Levels(emitted, "CC") = C9_Expected(f.cc, 10, 7)
                 /\ C9_Levels(emitted, "LEN") = C9_Expected(f.length, 60, 40)
                 /\ C9_Levels(emitted, "NEST") = C9_Expected(f.nest, 5, 3)
        /\ SelectSeq(smells, LAMBDA x : x.target = "function")
              = Flatten([i \in 1..Len(func_stats) |-> detect_smells(<<func_stats[i]>>, << >>)])

\* a function at the high complexity threshold, between the two length
\* thresholds and below both nesting thresholds: two smells
C9_Witness ==
    /\ smells # None
    /\ Len(func_stats) = 1
    /\ func_stats[1].cc = 10 /\ func_stats[1].length = 59 /\ func_stats[1].nest = 2
    /\ Len(smells) = 2
    /\ smells[1].level = "high" /\ smells[2].level = "medium"

(***************************************************************************)
(* C10: the list build_file_risk_ranking returns is in descending          *)
(* lexicographic order of (high smells, medium smells, max complexity, max *)
(* length): each entry's tuple is greater than or equal to the next one's, *)
(* and entries with equal tuples keep the order in which their files were  *)
(* first encountered.                                                      *)
(***************************************************************************)
C10_Geq(a, b) ==
    \/ a.high_smells > b.high_smells
    \/ /\ a.high_smells = b.high_smells
       /\ \/ a.med_smells > b.med_smells
          \/ /\ a.med_smells = b.med_smells
             /\ \/ a.cc_max > b.cc_max
                \/ a.cc_max = b.cc_max /\ a.len_max >= b.len_max

\* the files in the order they are first met: function records, then smells
C10_Met ==
    [i \in 1..Len(func_stats) |-> func_stats[i].file]
    \o [i \in 1..Len(smells) |-> smells[i].file]

C10_FirstMet(file) == CHOOSE i \in 1..Len(C10_Met) :
    C10_Met[i] = file /\ \A j \in 1..(i - 1) : C10_Met[j] # file

C10_RankingSorted ==
    file_ranking # None =>
        /\ {file_ranking[i].file : i \in 1..Len(file_ranking)}
              = {C10_Met[i] : i \in 1..Len(C10_Met)}
        /\ \A i \in 1..(Len(file_ranking) - 1) :
              C10_Geq(file_ranking[i], file_ranking[i + 1])
        /\ \A i, j \in 1..Len(file_ranking) :
              (i < j /\ C10_Geq(file_ranking[i], file_ranking[j])
                     /\ C10_Geq(file_ranking[j], file_ranking[i])) =>
                  C10_FirstMet(file_ranking[i].file) < C10_FirstMet(file_ranking[j].file)

\* three files: the one met first ranks last, the other two tie and keep the
\* order they were met in
C10_Witness ==
    /\ file_ranking # None
    /\ Len(file_ranking) = 3
    /\ file_ranking[3].file = func_stats[1].file
    /\ C10_Geq(file_ranking[1], file_ranking[2])
    /\ C10_Geq(file_ranking[2], file_ranking[1])
    /\ ~C10_Geq(file_ranking[3], file_ranking[2])
    /\ file_ranking[1].file = func_stats[2].file
    /\ file_ranking[2].file = func_stats[3].file

----------------------------------------------------------------------------
(***************************************************************************)
(* collect_file_metrics over files made of imports and of the names that   *)
(* read or bind them.                                                      *)
(***************************************************************************)
InitImports ==
    /\ \E n \in 1..(MaxFileInput + 1) :
          IsTreeOf(tree, n, FileNode("Module", << >>, "None", "", NoArgs, << >>), "import")
    /\ source = << >>
    /\ has_pos = TRUE
    /\ IdleExtract /\ IdleMetrics /\ IdleFile /\ IdleCli /\ IdleStats /\ IdleReport

SpecImports == InitImports /\ [][NextFile]_vars

(***************************************************************************)
(* C11: calc_unused_imports returns exactly the imported names (the alias  *)
(* if given, otherwise the module segment before the first '.', or the     *)
(* imported symbol for from-imports; wildcard imports contribute none)     *)
(* that occur nowhere in the file as a read reference, whatever the scope: *)
(* importing os and never reading it yields ["os"], importing os and       *)
(* calling os.getcwd() yields nothing.                                     *)
(***************************************************************************)
\* the first segment of a dotted name
C11_Segment(name) ==
    IF \E i \in 1..Len(name) : name[i] = "."
    THEN SubSeq(name, 1, (CHOOSE i \in 1..Len(name) :
                             name[i] = "." /\ \A j \in 1..(i - 1) : name[j] # ".") - 1)
    ELSE name

\* the names the imports of the tree bring in
C11_Imported ==
    {x \in UNION {{IF a.asname # None THEN a.asname[1]
                   ELSE IF tree[i].kind = "Import" THEN C11_Segment(a.name)
                   ELSE a.name :
                      a \in {tree[i].names[k] : k \in {k \in 1..Len(tree[i].names) :
                                ~(tree[i].kind = "ImportFrom" /\ tree[i].names[k].name = <<"*">>)}}} :
                  i \in {i \in 1..Len(tree) : tree[i].kind \in {"Import", "ImportFrom"}}} : TRUE}

C11_Read(x) == \E n \in 1..Len(tree) :
    tree[n].kind = "Name" /\ tree[n].ctx = "Load" /\ tree[n].name = x

C11_Os == <<"o", "s">>

C11_UnusedImportsExact ==
    /\ fm # None =>
          /\ {fm.unused_imports[k] : k \in 1..Len(fm.unused_imports)}
                = {x \in C11_Imported : ~C11_Read(x)}
          /\ \A j, k \in 1..Len(fm.unused_imports) :
                j # k => fm.unused_imports[j] # fm.unused_imports[k]
    /\ calc_unused_imports(
          <<FileNode("Module", << >>, "None", "", NoArgs, << >>),
            Under(FileNode("Import", << >>, "None", "", NoArgs, <<Alias(C11_Os, None)>>), 1)>>)
          = <<C11_Os>>
    /\ calc_unused_imports(
          <<FileNode("Module", << >>, "None", "", NoArgs, << >>),
            Under(FileNode("Import", << >>, "None", "", NoArgs, <<Alias(C11_Os, None)>>), 1),
            Under(FileNode("Attribute", << >>, "None", "", NoArgs, << >>), 1),
            Under(FileNode("Name", C11_Os, "None", "Load", NoArgs, << >>), 3)>>)
          = << >>

\* "import os.p" and "import os as p" with p read afterwards: os is
\* reported, p is not
C11_Witness ==
    /\ fm # None
    /\ Len(tree) = 4
    /\ tree[2].kind = "Import" /\ tree[2].names[1].name = <<"o", "s", ".", "p">>
    /\ tree[3].kind = "Import" /\ tree[3].names[1].asname = Some(<<"p">>)
    /\ tree[4].kind = "Name" /\ tree[4].name = <<"p">> /\ tree[4].ctx = "Load"
    /\ fm.unused_imports = <<C11_Os>>

----------------------------------------------------------------------------
(***************************************************************************)
(* analyze --json: the export, and the same command line run again over    *)
(* the same file system.                                                   *)
(***************************************************************************)
\* the invocations of the same command line, at most
MaxRuns == 2

\* json.dumps of a dict: its items in insertion order
Obj(dict, keys) == [k \in 1..Len(keys) |-> <<keys[k], dict[keys[k]]>>]

\* json.dumps of a list of dicts
ObjList(dicts, keys) == [k \in 1..Len(dicts) |-> Obj(dicts[k], keys)]

DumpsSummary(sm) ==
    Obj([sm EXCEPT
           !.cc_dist = Obj(sm.cc_dist, <<"1-3", "4-6", "7-10", "11+">>),
           !.len_dist = Obj(sm.len_dist, <<"1-20", "21-40", "41-60", "61+">>),
           !.file_metric_avg =
               Obj(sm.file_metric_avg,
                   <<"comment_ratio", "docstring_coverage", "long_line_ratio",
                     "naming_issue_ratio", "unused_imports_count">>)],
        <<"num_files", "num_functions", "cc_avg", "cc_max", "len_avg", "len_max",
          "cc_dist", "len_dist", "file_metric_avg">>)

\* json.dumps(payload, ensure_ascii=False, indent=2), as the sequence of
\* keys and values it writes
Dumps(fstats, flstats, thr, ign) ==
    <<<<"summary", DumpsSummary(build_summary(fstats, flstats))>>,
      <<"functions", ObjList(fstats, <<"file", "name", "cc", "length", "nest", "lineno">>)>>,
      <<"files", ObjList(flstats, <<"file", "comment_ratio", "docstring_coverage",
                                    "long_line_ratio", "naming_issue_ratio",
                                    "unused_imports_count", "unused_imports">>)>>,
      <<"smells", ObjList(detect_smells(fstats, flstats),
                          <<"type", "level", "target", "file", "name", "detail">>)>>,
      <<"config", <<<<"threshold", thr>>, <<"ignore", ign>>>>>>>>

\* analyze: if json_path: ... jp.write_text(...); analyze returns
ExportJson ==
    /\ pc.at = "json"
    /\ exports' = Append(exports, Dumps(func_stats, file_stats, threshold, ignore))
    /\ exit_code' = Some(0)
    /\ pc' = At("exit", 0)
    /\ UNCHANGED <<fs, paths, ignore, threshold, all_files, func_results,
                   file_summaries, stderr, stdout, listing, json_path,
                   statVars, outsideCli>>

\* the same command line is given again; nothing on disk has changed
RunAgain ==
    /\ pc.at = "exit" /\ exit_code = Some(0)
    /\ Len(exports) < MaxRuns
    /\ pc' = At("collect", 1)
    /\ all_files' = << >>
    /\ func_results' = << >>
    /\ file_summaries' = << >>
    /\ func_stats' = << >>
    /\ file_stats' = << >>
    /\ stderr' = << >>
    /\ stdout' = << >>
    /\ exit_code' = None
    /\ UNCHANGED <<fs, paths, ignore, threshold, listing, json_path, exports,
                   outsideCli>>

InitTwice == CliStart /\ has_pos = TRUE /\ json_path = Some(<<"o", ".", "j">>)

NextTwice == analyze \/ ExportJson \/ RunAgain

SpecTwice == InitTwice /\ [][NextTwice]_vars

(***************************************************************************)
(* C12: running the full pipeline (file collection, generate_results,      *)
(* build_summary, detect_smells, JSON serialisation) twice on the same     *)
(* unchanged input files with the same options produces byte-identical     *)
(* JSON exports.                                                           *)
(***************************************************************************)
C12_ExportsIdentical ==
    \A i, j \in 1..Len(exports) : exports[i] = exports[j]

\* two runs over a directory of two files, one of them holding two badly
\* named variables, have both written their export
C12_Witness ==
    /\ Len(exports) = 2
    /\ Len(listing) = 2
    /\ Len(file_stats) >= 2
    /\ \E k \in 1..Len(all_files) :
          is_file(fs, all_files[k]) /\ fs[all_files[k]].content = "two"

----------------------------------------------------------------------------
(***************************************************************************)
(* C13: for every function node, calc_max_nesting returns the maximum,     *)
(* over all nodes of the function's subtree, of the number of if, for,     *)
(* while, try, with, async-for and async-with nodes on the path from the   *)
(* function node down to that node, the function node itself excluded;     *)
(* descending into any other kind of node leaves the depth unchanged, and  *)
(* the result is 0 when the subtree contains no nesting construct.         *)
(***************************************************************************)
\* the function subtrees made of nesting constructs, statements that are not
\* one, exception handlers and nested functions
InitNesting ==
    /\ IsTreeOver(tree, MaxBody + 1, Node("FunctionDef", <<"f">>, 0, 0), "nesting")
    /\ has_pos = TRUE
    /\ source = << >>
    /\ IdleExtract /\ IdleMetrics /\ IdleFile /\ IdleCli /\ IdleStats /\ IdleReport

SpecNesting == InitNesting /\ [][NextMetrics]_vars

C13_Nesting == {"If", "For", "While", "Try", "With", "AsyncFor", "AsyncWith"}

\* the nesting constructs on the path from below f down to node i, i included
C13_Depth(t, f, i) ==
    Cardinality({a \in Subtree(t, f) \ {f} :
                    IsAncestorOrSelf(t, a, i) /\ t[a].kind \in C13_Nesting})

C13_MaxNestingIsPathCount ==
    func_node # 0 =>
        LET sub == Subtree(tree, func_node)
        IN /\ \A i \in sub : C13_Depth(tree, func_node, i) <= m.max_nest
           /\ \E i \in sub : C13_Depth(tree, func_node, i) = m.max_nest
           /\ \A i \in sub \ {func_node} :
                 tree[i].kind \notin C13_Nesting =>
                     C13_Depth(tree, func_node, i)
                         = C13_Depth(tree, func_node, tree[i].parent)
           /\ (\A i \in sub \ {func_node} : tree[i].kind \notin C13_Nesting)
                 => m.max_nest = 0

\* def f: try: ... except: if ...: measured; the handler adds no level
C13_Witness ==
    /\ func_node = 1
    /\ Len(tree) = 4
    /\ tree[2].kind = "Try"
    /\ tree[3].kind = "ExceptHandler" /\ tree[3].parent = 2
    /\ tree[4].kind = "If" /\ tree[4].parent = 3
    /\ m.max_nest = 2

\* a function without any nesting construct has been measured
C13_WitnessFlat ==
    /\ func_node = 1
    /\ Len(tree) = 3
    /\ \A i \in 2..3 : tree[i].kind \in {"Expr", "ExceptHandler", "FunctionDef"}
    /\ m.max_nest = 0

----------------------------------------------------------------------------
(***************************************************************************)
(* C14: within one file, the qualified names returned by list_functions    *)
(* are unique: no two function records extracted from the same tree carry  *)
(* the same qualified name.                                                *)
(***************************************************************************)
C14_QualifiedNamesUnique ==
    \A i, j \in 1..Len(functions) :
        i # j => functions[i][1] # functions[j][1]

----------------------------------------------------------------------------
(***************************************************************************)
(* C15: the function-level section of the text output contains a line for  *)
(* a function exactly when that function's cyclomatic complexity exceeds   *)
(* the complexity threshold given on the command line; functions that do   *)
(* not exceed it produce no line.                                          *)
(***************************************************************************)
\* the function-level lines of the text output
C15_FunctionLines ==
    {k \in 1..Len(stdout) : "Function" \in DOMAIN stdout[k]}

C15_HasLine(r) ==
    \E k \in C15_FunctionLines :
        /\ stdout[k].file = r.file
        /\ stdout[k].Function = r.name
        /\ stdout[k].CC = r.cc

C15_LineIffExceedsThreshold ==
    (pc.at = "exit" /\ exit_code = Some(0)) =>
        \A k \in 1..Len(func_stats) :
            C15_HasLine(func_stats[k]) <=> func_stats[k].cc > threshold

----------------------------------------------------------------------------
\* files of assignments and functions, well and badly named
InitNaming ==
    /\ \E n \in 1..(MaxFileInput + 1) :
          IsTreeOf(tree, n, FileNode("Module", << >>, "None", "", NoArgs, << >>), "naming")
    /\ source = << >>
    /\ has_pos = TRUE
    /\ IdleExtract /\ IdleMetrics /\ IdleFile /\ IdleCli /\ IdleStats /\ IdleReport

SpecNaming == InitNaming /\ [][NextFile]_vars

(***************************************************************************)
(* C16: every FileMetrics value is a pure function of the file's tree and  *)
(* raw text: two calls of collect_file_metrics on the same tree and text,  *)
(* in any analysis order and in any run, return equal results, including   *)
(* the same order of the entries of the naming_issues list.                *)
(***************************************************************************)
\* what another call on the same tree and text may return
C16_AnotherCall ==
    {FileMetrics(tree, source, order) : order \in Orders(StoreNames(tree))}

C16_FileMetricsPure ==
    fm # None => \A again \in C16_AnotherCall : again = fm

----------------------------------------------------------------------------
\* analyze on an interpreter whose parser gives the nodes their end position,
\* or on one whose parser gives them only the line they start on
InitPositions == CliStart /\ has_pos \in BOOLEAN /\ json_path = None

SpecPositions == InitPositions /\ [][analyze]_vars

(***************************************************************************)
(* C17: the length of a function is end_line - start_line + 1 when the     *)
(* tree exposes both positions; when it does not, the length is reported   *)
(* as absent everywhere it is recorded (the per-function record, the       *)
(* summary and the distribution buckets), never as a number.               *)
(***************************************************************************)
\* the node a function record was made from
C17_Node(r) == r.lineno

C17_Tree(r) == Content(fs[r.file].content).tree

C17_LengthOrAbsent ==
    (pc.at = "exit" /\ exit_code = Some(0)) =>
        /\ \A k \in 1..Len(func_stats) :
              LET r == func_stats[k]
              IN IF has_pos
                 THEN r.length = end_lineno(C17_Tree(r), C17_Node(r))
                                    - lineno(C17_Tree(r), C17_Node(r)) + 1
                 ELSE r.length \notin Int
        /\ (~has_pos /\ func_stats # << >>) =>
              LET sm == build_summary(func_stats, file_stats)
              IN /\ \A b \in DOMAIN sm.len_dist : sm.len_dist[b] = 0
                 /\ sm.len_max \notin Int

----------------------------------------------------------------------------
\* functions that hold functions, with decision points at every level
InitNested ==
    /\ IsTreeOver(tree, MaxBody + 1, Node("FunctionDef", <<"f">>, 0, 0), "nested")
    /\ has_pos = TRUE
    /\ source = << >>
    /\ IdleExtract /\ IdleMetrics /\ IdleFile /\ IdleCli /\ IdleStats /\ IdleReport

SpecNested == InitNested /\ [][NextMetrics]_vars

(***************************************************************************)
(* C18: complexity is not scope-exclusive: for every function g defined    *)
(* (at any depth) inside a function f, every decision point counted for g  *)
(* is also counted for f, so cc(f) - 1 is at least the sum of (cc(g) - 1)  *)
(* over the functions g directly nested in f, and cc(f) >= cc(g).          *)
(***************************************************************************)
\* the functions defined at any depth inside f
C18_Inside(t, f) ==
    {g \in Subtree(t, f) \ {f} : t[g].kind \in {"FunctionDef", "AsyncFunctionDef"}}

\* those with no other function between them and f
C18_DirectlyNested(t, f) ==
    {g \in C18_Inside(t, f) : \A h \in C18_Inside(t, f) \ {g} : g \notin Subtree(t, h)}

C18_ComplexityIncludesNested ==
    func_node # 0 =>
        LET inner == [g \in C18_Inside(tree, func_node) |-> calc_cc(tree, g) - 1]
        IN /\ \A g \in DOMAIN inner : m.cc >= inner[g] + 1
           /\ m.cc - 1 >= SumOver(inner, C18_DirectlyNested(tree, func_node))

\* def f: def g: async def h: if ...: f measured; the if of h, two
\* functions down, counts for f
C18_Witness ==
    /\ func_node = 1
    /\ Len(tree) = 4
    /\ tree[2].kind = "FunctionDef" /\ tree[2].parent = 1
    /\ tree[3].kind = "AsyncFunctionDef" /\ tree[3].parent = 2
    /\ tree[4].kind = "If" /\ tree[4].parent = 3
    /\ m.cc = 2

----------------------------------------------------------------------------
(***************************************************************************)
(* C19: during the traversal of list_functions, pushes and pops of the     *)
(* scope stack are paired: whenever a node is being visited the stack      *)
(* holds exactly the names of the class and function definitions that      *)
(* lexically enclose it (plus its own name if it is such a definition), in *)
(* outermost-to-innermost order; after a definition's subtree is left the  *)
(* stack is what it was before entering, also when the subtree contains no *)
(* further definitions, and the stack is empty when the traversal          *)
(* completes.                                                              *)
(***************************************************************************)
\* the names of the definitions on the way from the root down to n, n included
RECURSIVE C19_Scopes(_, _)
C19_Scopes(t, n) ==
    IF n = 0 THEN << >>
    ELSE C19_Scopes(t, t[n].parent)
            \o (IF t[n].kind \in {"ClassDef", "FunctionDef", "AsyncFunctionDef"}
                THEN <<t[n].name>> ELSE << >>)

C19_ScopeStackPaired ==
    /\ frames # << >> => scope_stack = C19_Scopes(tree, frames[Len(frames)].node)
    /\ frames = << >> => scope_stack = << >>
    /\ lf_pc = "done" => frames = << >>

\* class f: def g: ...; if ...: the if is being visited after g, which holds
\* no definition, was left; the stack is back to the class alone
C19_Witness ==
    /\ Len(tree) = 4
    /\ tree[2].kind = "ClassDef" /\ tree[2].parent = 1
    /\ tree[3].kind = "FunctionDef" /\ tree[3].parent = 2
    /\ tree[4].kind = "If" /\ tree[4].parent = 2
    /\ frames # << >> /\ frames[Len(frames)].node = 4
    /\ Len(functions) = 1
    /\ scope_stack = <<tree[2].name>>

\* the traversal of a tree with definitions in it has completed
C19_WitnessDone ==
    /\ lf_pc = "done"
    /\ Len(functions) = 2
    /\ scope_stack = << >>

----------------------------------------------------------------------------
(***************************************************************************)
(* C20: a file whose processing raises an error at any step of             *)
(* generate_results (parsing, file metrics, function extraction, or the    *)
(* metrics of any one of its functions) is skipped as a whole: after the   *)
(* run the returned file records, file summary lines, function records and *)
(* function result lines contain no entry for that file, and the remaining *)
(* files are processed as if it were absent.                               *)
(***************************************************************************)
\* the files whose processing ended in a reported error
C20_Raised == {stderr[k].path : k \in 1..Len(stderr)}

C20_NoEntryFor(records) ==
    \A k \in 1..Len(records) : records[k].file \notin C20_Raised

C20_FailedFileSkippedWhole ==
    (pc.at = "exit" /\ exit_code = Some(0)) =>
        /\ C20_NoEntryFor(file_stats)
        /\ C20_NoEntryFor(file_summaries)
        /\ C20_NoEntryFor(func_stats)
        /\ C20_NoEntryFor(func_results)

----------------------------------------------------------------------------
\* Function records spread over two files, with the complexity and the
\* nesting depth varying from function to function, and the file records of
\* both files in either order.
HeatFuncRecords ==
    {FuncRecord(file, cc, 1, nest) : file \in {F_a, F_b}, cc \in {1, 4}, nest \in {0, 3, 4}}

HeatFileStats ==
    {<<FileRecord(F_a, Half, Zero, Zero, Zero, << >>),
       FileRecord(F_b, Zero, One, Zero, Zero, << >>)>>,
     <<FileRecord(F_b, Zero, One, Zero, Zero, << >>),
       FileRecord(F_a, Half, Zero, Zero, Zero, << >>)>>}

InitHeatmap ==
    /\ \E k \in 1..MaxFuncs : func_stats \in [1..k -> HeatFuncRecords]
    /\ file_stats \in HeatFileStats
    /\ report_pc = "plot_cc"
    /\ tree = << >>
    /\ has_pos = TRUE
    /\ source = << >>
    /\ IdleExtract /\ IdleMetrics /\ IdleFile /\ IdleCli
    /\ cc_counts = None /\ len_counts = None /\ heat_rows = None
    /\ summary = None /\ smells = None /\ file_ranking = None /\ top_rows = None

SpecHeatmap == InitHeatmap /\ [][NextReport]_vars

(***************************************************************************)
(* C21: the rows of the file-level heatmap are the top_k files in          *)
(* descending order of the combined max scores cc_max + len_max + nest_max *)
(* (maximum complexity, maximum length and maximum nesting depth over the  *)
(* file's functions); no file left out has a larger combined score than a  *)
(* file shown.                                                             *)
(***************************************************************************)
\* the largest value of a field over the function records of a file, 0
\* when it has none
C21_MaxOf(file, field) ==
    LET vals == {func_stats[i][field] :
                    i \in {j \in 1..Len(func_stats) : func_stats[j].file = file}}
    IN IF vals = {} THEN 0 ELSE CHOOSE v \in vals : \A w \in vals : w <= v

C21_Score(file) ==
    C21_MaxOf(file, "cc") + C21_MaxOf(file, "length") + C21_MaxOf(file, "nest")

C21_Files == {file_stats[i].file : i \in 1..Len(file_stats)}

C21_Shown == {heat_rows[i][1] : i \in 1..Len(heat_rows)}

C21_HeatmapTopByMaxScores ==
    heat_rows # None =>
        /\ Len(heat_rows) = (IF Cardinality(C21_Files) < top_k
                             THEN Cardinality(C21_Files) ELSE top_k)
        /\ C21_Shown \subseteq C21_Files
        /\ \A i, j \in 1..Len(heat_rows) :
              i < j => C21_Score(heat_rows[i][1]) >= C21_Score(heat_rows[j][1])
        /\ \A out \in C21_Files \ C21_Shown :
              \A in \in C21_Shown : C21_Score(out) <= C21_Score(in)

----------------------------------------------------------------------------
(***************************************************************************)
(* C22: for every function node, the maximum nesting depth never exceeds   *)
(* the cyclomatic complexity minus 1 (calc_max_nesting(f) <=               *)
(* calc_cc(f) - 1), because every construct that increases the nesting     *)
(* depth is also counted as a decision point.                              *)
(***************************************************************************)
C22_NestingBelowComplexity ==
    func_node # 0 =>
        /\ m.max_nest <= m.cc - 1
        /\ nest_nodes \subseteq decision_nodes

\* def f: with ...: for ...: while ...: measured: depth 3, complexity 4,
\* the bound is met
C22_Witness ==
    /\ func_node = 1
    /\ Len(tree) = 4
    /\ tree[2].kind = "With" /\ tree[2].parent = 1
    /\ tree[3].kind = "For" /\ tree[3].parent = 2
    /\ tree[4].kind = "While" /\ tree[4].parent = 3
    /\ m.max_nest = 3
    /\ m.cc = 4

----------------------------------------------------------------------------
(***************************************************************************)
(* C23: build_file_risk_ranking conserves its inputs: the result holds     *)
(* exactly one entry for each distinct file that occurs in the function    *)
(* records or in the smells (a file with neither has no entry), the        *)
(* func_count values sum to the number of function records, the            *)
(* high_smells values sum to the number of smells of level 'high', and the *)
(* med_smells values sum to the number of all other smells.                *)
(***************************************************************************)
\* the files of the function records and of the smells handed in
C23_InputFiles ==
    {func_stats[i].file : i \in 1..Len(func_stats)}
        \cup {smells[i].file : i \in 1..Len(smells)}

\* the sum of a field over the entries of the ranking
C23_Total(field) ==
    SumOver([i \in 1..Len(file_ranking) |-> file_ranking[i][field]],
            1..Len(file_ranking))

C23_HighSmells == {i \in 1..Len(smells) : smells[i].level = "high"}

C23_RankingConserves ==
    file_ranking # None =>
        /\ \A file \in C23_InputFiles :
              Cardinality({i \in 1..Len(file_ranking) : file_ranking[i].file = file}) = 1
        /\ \A i \in 1..Len(file_ranking) : file_ranking[i].file \in C23_InputFiles
        /\ C23_Total("func_count") = Len(func_stats)
        /\ C23_Total("high_smells") = Cardinality(C23_HighSmells)
        /\ C23_Total("med_smells") = Len(smells) - Cardinality(C23_HighSmells)

\* two files with functions, one of them with smells of level high, and a
\* third that occurs only in a file-level smell
C23_Witness ==
    /\ file_ranking # None
    /\ Len(file_ranking) = 3
    /\ Len(func_stats) = 3
    /\ \E i \in 1..3 : file_ranking[i].func_count = 2 /\ file_ranking[i].high_smells >= 2
    /\ \E i \in 1..3 : file_ranking[i].func_count = 0 /\ file_ranking[i].med_smells >= 1

====
